---- MODULE Spec2Model ----
(***************************************************************************)
(* A model of the munchkin lazy-clause-generation solver core:             *)
(* ConstraintSatisfactionSolver (engine/constraint_satisfaction_solver.rs),*)
(* its conflict resolvers (engine/conflict_analysis) and the lowering of a *)
(* Model into the solver (model/mod.rs).                                   *)
(*                                                                         *)
(* The instance is one integer variable x with initial domain 0..XMax, its *)
(* bound and equality literals, two free propositional variables, a        *)
(* menu of clauses and a menu of propagators.                              *)
(***************************************************************************)
EXTENDS Integers, Sequences, FiniteSets, TLC

\* ---------------------------------------------------------------- bounds
\* Upper bound of the initial domain 0..XMax of the integer variable x.
XMax == 2
\* Number of constraint additions (add_clause / add_propagator / lowered).
MaxAdds == 2
\* Number of main-loop iterations of one solve call that are explored.
MaxIters == 4
\* Number of clauses a reverse-propagation engine holds at a time.
MaxNogoods == 3
\* Number of contexts a client of the checking state opens in a row, and
\* of apply calls it makes through one context.
MaxContexts == 2
MaxApplies == 3
\* Number of propagate calls made on one reified propagator.
MaxPropagations == 3
\* Number of entries put on the integer trail before it is synchronised.
MaxEntries == 3
\* Largest absolute scale and offset of an affine view, and largest
\* absolute value a predicate over the view is built with.
MaxScale == 3
MaxOffset == 2
MaxValue == 5

\* ------------------------------------------------------------- literals
\* A literal is a non-zero integer: v is the positive literal of the
\* propositional variable v, -v its negation.
TrueVar == 1

true_literal == TrueVar
false_literal == -TrueVar

Neg(l) == -l
VarOf(l) == IF l < 0 THEN -l ELSE l

GeVar(k) == TrueVar + k
EqVar(k) == TrueVar + XMax + k
BoolVar(i) == TrueVar + XMax + (XMax - 1) + i
B1 == BoolVar(1)
B2 == BoolVar(2)
NumVars == B2

Vars == 1 .. NumVars
Literals == {l \in -NumVars .. NumVars : l # 0}

\* -------------------------------------------------- integer predicates
Pred(t, v) == [t |-> t, v |-> v]
Predicates == {Pred(t, v) : t \in {"ge", "le", "eq", "ne"}, v \in 0 .. XMax}

GeLit(k) ==
  IF k <= 0 THEN true_literal
  ELSE IF k > XMax THEN false_literal
  ELSE GeVar(k)

EqLit(k) ==
  IF k < 0 \/ k > XMax THEN false_literal
  ELSE IF k = 0 THEN Neg(GeLit(1))
  ELSE IF k = XMax THEN GeLit(XMax)
  ELSE EqVar(k)

\* VariableLiteralMappings::get_literal for the predicates of x.
get_literal(p) ==
  CASE p.t = "ge" -> GeLit(p.v)
    [] p.t = "le" -> Neg(GeLit(p.v + 1))
    [] p.t = "eq" -> EqLit(p.v)
    [] OTHER      -> Neg(EqLit(p.v))

\* VariableLiteralMappings::literal_to_predicates
literal_to_predicates(l) ==
  LET v == VarOf(l) IN
  IF v > TrueVar /\ v <= TrueVar + XMax
    THEN IF l > 0 THEN <<Pred("ge", v - TrueVar)>>
                  ELSE <<Pred("le", v - TrueVar - 1)>>
  ELSE IF v > TrueVar + XMax /\ v <= TrueVar + XMax + (XMax - 1)
    THEN IF l > 0 THEN <<Pred("eq", v - TrueVar - XMax)>>
                  ELSE <<Pred("ne", v - TrueVar - XMax)>>
  ELSE <<>>

\* The channelling clauses posted when the domain of x is created:
\* [x >= k] -> [x >= k-1], and [x == k] <-> [x >= k] /\ ~[x >= k+1].
ChannellingClauses ==
  LET ord == [k \in 2 .. XMax |-> <<Neg(GeVar(k)), GeVar(k - 1)>>]
      eqs(k) == << <<Neg(EqVar(k)), GeLit(k)>>,
                   <<Neg(EqVar(k)), Neg(GeLit(k + 1))>>,
                   <<EqVar(k), Neg(GeLit(k)), GeLit(k + 1)>> >>
      RECURSIVE AllEq(_)
      AllEq(k) == IF k >= XMax THEN <<>> ELSE eqs(k) \o AllEq(k + 1)
  IN [i \in 1 .. (XMax - 1) |-> ord[i + 1]] \o AllEq(1)


SetMin(S) == CHOOSE m \in S : \A n \in S : m <= n
SetMax(S) == CHOOSE m \in S : \A n \in S : m >= n

\* ------------------------------------------- AssignmentsPropositional
\* Reason kinds of a Boolean trail entry (ConstraintReference): NULL for
\* a decision, a clause reference, a reason reference into the reason
\* store, or NON_REASON.
NullReason == [kind |-> "null", ref |-> 0]
NonReason == [kind |-> "non_reason", ref |-> 0]
ClauseReason(j) == [kind |-> "clause", ref |-> j]
ReasonReference(r) == [kind |-> "reason_ref", ref |-> r]

InitialAssignmentsPropositional == [trail |-> <<>>, decision_level |-> 0]

is_literal_assigned_true(ap, l) ==
  \E i \in 1 .. Len(ap.trail) : ap.trail[i].literal = l

is_literal_assigned_false(ap, l) == is_literal_assigned_true(ap, Neg(l))

is_literal_assigned(ap, l) ==
  is_literal_assigned_true(ap, l) \/ is_literal_assigned_false(ap, l)

is_literal_unassigned(ap, l) == ~is_literal_assigned(ap, l)

TrailEntryOf(ap, l) ==
  ap.trail[CHOOSE i \in 1 .. Len(ap.trail) : VarOf(ap.trail[i].literal) = VarOf(l)]

is_literal_root_assignment(ap, l) ==
  is_literal_assigned(ap, l) /\ TrailEntryOf(ap, l).level = 0

is_literal_decision(ap, l) ==
  is_literal_assigned_true(ap, l) /\ TrailEntryOf(ap, l).reason = NullReason
    /\ TrailEntryOf(ap, l).level > 0

make_assignment(ap, l, reason) ==
  [ap EXCEPT !.trail = Append(@, [literal |-> l, level |-> ap.decision_level,
                                   reason |-> reason])]

enqueue_decision_literal(ap, l) == make_assignment(ap, l, NullReason)

\* Returns the new assignments and whether the literal was already false.
enqueue_propagated_literal(ap, l, reason) ==
  IF is_literal_assigned_false(ap, l) THEN [a |-> ap, conflict |-> TRUE]
  ELSE IF is_literal_assigned_true(ap, l) THEN [a |-> ap, conflict |-> FALSE]
  ELSE [a |-> make_assignment(ap, l, reason), conflict |-> FALSE]

\* AssignmentsPropositional::synchronise: drop every entry above the level.
RECURSIVE PrefixUpToLevel(_, _)
PrefixUpToLevel(trail, level) ==
  IF trail = <<>> THEN <<>>
  ELSE IF trail[Len(trail)].level > level
    THEN PrefixUpToLevel(SubSeq(trail, 1, Len(trail) - 1), level)
  ELSE trail

synchronise_propositional(ap, level) ==
  [trail |-> PrefixUpToLevel(ap.trail, level), decision_level |-> level]

\* The most recent decision literal on the trail (0 when there is none).
get_last_decision(ap) ==
  LET ds == {i \in 1 .. Len(ap.trail) : ap.trail[i].reason = NullReason
                                        /\ ap.trail[i].level > 0} IN
  IF ds = {} THEN 0 ELSE ap.trail[SetMax(ds)].literal

\* ---------------------------------------------------- ClausalPropagator
ClauseStatus(ap, c) ==
  IF \E i \in 1 .. Len(c) : is_literal_assigned_true(ap, c[i]) THEN "sat"
  ELSE LET un == {i \in 1 .. Len(c) : is_literal_unassigned(ap, c[i])} IN
       IF un = {} THEN "conflict"
       ELSE IF Cardinality(un) = 1 THEN "unit" ELSE "open"

UnitLiteral(ap, c) ==
  c[CHOOSE i \in 1 .. Len(c) : is_literal_unassigned(ap, c[i])]

\* Unit propagation to fixed point over the stored clauses; a clause with
\* an empty literal list is a deleted one.
RECURSIVE ClausalPropagate(_, _)
ClausalPropagate(ap, clauses) ==
  LET act == {j \in 1 .. Len(clauses) :
                 Len(clauses[j]) > 0
                 /\ ClauseStatus(ap, clauses[j]) \in {"conflict", "unit"}} IN
  IF act = {} THEN [a |-> ap, conflict |-> FALSE]
  ELSE LET j == SetMin(act) IN
       IF ClauseStatus(ap, clauses[j]) = "conflict"
         THEN [a |-> ap, conflict |-> TRUE]
       ELSE ClausalPropagate(
              make_assignment(ap, UnitLiteral(ap, clauses[j]), ClauseReason(j)),
              clauses)

is_clausal_propagation_complete(ap, clauses) ==
  \A j \in 1 .. Len(clauses) :
     Len(clauses[j]) = 0 \/ ClauseStatus(ap, clauses[j]) \in {"sat", "open"}

\* ------------------------------------------------- AssignmentsInteger
InitialAssignmentsInteger ==
  [lb |-> 0, ub |-> XMax, holes |-> {}, trail |-> <<>>, decision_level |-> 0,
   events |-> {}]

contains(ai, v) == v >= ai.lb /\ v <= ai.ub /\ v \notin ai.holes

does_integer_predicate_hold(ai, p) ==
  CASE p.t = "ge" -> ai.lb >= p.v
    [] p.t = "le" -> ai.ub <= p.v
    [] p.t = "eq" -> ai.lb = p.v /\ ai.ub = p.v
    [] OTHER      -> ~contains(ai, p.v)

\* The bounds move past holes (bound collapse).
RaisedLowerBound(lb, holes) ==
  IF lb > XMax THEN lb ELSE SetMin({v \in lb .. XMax + 1 : v \notin holes})

LoweredUpperBound(ub, holes) ==
  IF ub < 0 THEN ub ELSE SetMax({v \in -1 .. ub : v \notin holes})

IntTrailEntry(ai, p, reason) ==
  [predicate |-> p, old_lower_bound |-> ai.lb, old_upper_bound |-> ai.ub,
   reason |-> reason, level |-> ai.decision_level]

\* Each operation returns the new assignments and ok = FALSE on EmptyDomain.
tighten_lower_bound(ai, k, reason) ==
  IF k <= ai.lb THEN [a |-> ai, ok |-> TRUE]
  ELSE LET new == [ai EXCEPT !.trail = Append(@, IntTrailEntry(ai, Pred("ge", k), reason)),
                             !.lb = RaisedLowerBound(k, ai.holes),
                             !.events = @ \cup {"lb"}]
       IN [a |-> new, ok |-> new.lb <= new.ub]

tighten_upper_bound(ai, k, reason) ==
  IF k >= ai.ub THEN [a |-> ai, ok |-> TRUE]
  ELSE LET new == [ai EXCEPT !.trail = Append(@, IntTrailEntry(ai, Pred("le", k), reason)),
                             !.ub = LoweredUpperBound(k, ai.holes),
                             !.events = @ \cup {"ub"}]
       IN [a |-> new, ok |-> new.lb <= new.ub]

remove_value_from_domain(ai, k, reason) ==
  IF ~contains(ai, k) THEN [a |-> ai, ok |-> TRUE]
  ELSE LET hs == ai.holes \cup {k}
           new == [ai EXCEPT !.trail = Append(@, IntTrailEntry(ai, Pred("ne", k), reason)),
                             !.holes = hs,
                             !.lb = RaisedLowerBound(ai.lb, hs),
                             !.ub = LoweredUpperBound(ai.ub, hs),
                             !.events = @ \cup {"removal"}
                                          \cup (IF RaisedLowerBound(ai.lb, hs) # ai.lb
                                                  THEN {"lb"} ELSE {})
                                          \cup (IF LoweredUpperBound(ai.ub, hs) # ai.ub
                                                  THEN {"ub"} ELSE {})]
       IN [a |-> new, ok |-> new.lb <= new.ub]

make_integer_assignment(ai, k, reason) ==
  IF ~contains(ai, k) THEN [a |-> ai, ok |-> FALSE]
  ELSE LET r1 == tighten_lower_bound(ai, k, reason) IN
       IF ~r1.ok THEN r1 ELSE tighten_upper_bound(r1.a, k, reason)

apply_integer_predicate(ai, p, reason) ==
  CASE p.t = "ge" -> tighten_lower_bound(ai, p.v, reason)
    [] p.t = "le" -> tighten_upper_bound(ai, p.v, reason)
    [] p.t = "eq" -> make_integer_assignment(ai, p.v, reason)
    [] OTHER      -> remove_value_from_domain(ai, p.v, reason)

\* AssignmentsInteger::synchronise: undo the trail entries above the level
\* in reverse order, restoring the bounds each entry saved.
RECURSIVE UndoIntegerTrail(_, _)
UndoIntegerTrail(ai, level) ==
  IF ai.trail = <<>> \/ ai.trail[Len(ai.trail)].level <= level THEN ai
  ELSE LET e == ai.trail[Len(ai.trail)] IN
       UndoIntegerTrail(
         [ai EXCEPT !.trail = SubSeq(@, 1, Len(@) - 1),
                    !.lb = e.old_lower_bound,
                    !.ub = e.old_upper_bound,
                    !.holes = IF e.predicate.t = "ne" THEN @ \ {e.predicate.v} ELSE @],
         level)

synchronise_integer(ai, level) ==
  [UndoIntegerTrail(ai, level) EXCEPT !.decision_level = level, !.events = {}]


\* ------------------------------------------------------ CSPSolverState
StateOf(kind) == [kind |-> kind, violated_assumption |-> 0, conflict_info |-> "none"]

is_ready(st) == st.kind = "Ready"
conflicting(st) == st.kind = "Conflict"
no_conflict(st) == ~conflicting(st)
is_infeasible(st) == st.kind = "Infeasible"
is_infeasible_under_assumptions(st) == st.kind = "InfeasibleUnderAssumptions"
is_inconsistent(st) ==
  conflicting(st) \/ is_infeasible(st) \/ is_infeasible_under_assumptions(st)

\* A failed assertion, expect or todo!() aborts the process: the first
\* panic message is kept and every later operation leaves the solver alone.
Panic(s, msg) == IF s.panic = "" THEN [s EXCEPT !.panic = msg] ELSE s

declare_ready(s) == [s EXCEPT !.state = StateOf("Ready")]

declare_solving(s) ==
  IF (is_ready(s.state) \/ conflicting(s.state)) /\ ~is_infeasible(s.state)
    THEN [s EXCEPT !.state = StateOf("Solving")]
  ELSE Panic(s, "declare_solving")

declare_infeasible(s) == [s EXCEPT !.state = StateOf("Infeasible")]

declare_conflict(s, info) ==
  IF ~conflicting(s.state)
    THEN [s EXCEPT !.state = [StateOf("Conflict") EXCEPT !.conflict_info = info]]
  ELSE Panic(s, "declare_conflict")

declare_solution_found(s) ==
  IF ~is_infeasible(s.state) THEN [s EXCEPT !.state = StateOf("ContainsSolution")]
  ELSE Panic(s, "declare_solution_found")

declare_timeout(s) ==
  IF ~is_infeasible(s.state) THEN [s EXCEPT !.state = StateOf("Timeout")]
  ELSE Panic(s, "declare_timeout")

declare_infeasible_under_assumptions(s, violated_assumption) ==
  IF ~is_infeasible(s.state)
    THEN [s EXCEPT !.state = [StateOf("InfeasibleUnderAssumptions")
                                EXCEPT !.violated_assumption = violated_assumption]]
  ELSE Panic(s, "declare_infeasible_under_assumptions")

\* ---------------------------------------------------------- propagators
\* A propagator is a wrapped propagator, optionally reified by a literal
\* (reif = 0: not reified).  Wrapped kinds:
\*   LinearLeq  x <= rhs            (LinearLessOrEqualPropagator, one term)
\*   LinearGeq  x >= rhs            (the same over the view -x)
\*   FailInit   a propagator whose initialise_at_root reports an error
\*   Generic    the GenericPropagator of the tests, with the results of its
\*              three closures (<<>>: Ok or None, <<c>>: the conjunction c)
\* A conjunction is the set of the literals of its predicates.  The stored
\* root_level_inconsistency is <<>> for None, <<c>> for Some(c).
Propagator(kind, rhs, lit, reif) ==
  [kind |-> kind, rhs |-> rhs, lit |-> lit, reif |-> reif,
   root_level_inconsistency |-> <<>>,
   propagation |-> <<>>, consistency_check |-> <<>>, init |-> <<>>]

GenericPropagator(propagation, consistency_check, init, reif) ==
  [Propagator("Generic", 0, 0, reif) EXCEPT
     !.propagation = propagation, !.consistency_check = consistency_check,
     !.init = init]

\* initialise_at_root of the wrapped propagator: <<>> for Ok(()), <<c>> for
\* Err(c).
WrappedInitialiseAtRoot(p) ==
  CASE p.kind = "FailInit" -> <<{GeLit(0)}>>
    [] p.kind = "Generic"  -> p.init
    [] OTHER               -> <<>>

\* detect_inconsistency: the lower bounds of the terms when they sum to
\* more than the right-hand side.
WrappedDetectInconsistency(p, s) ==
  CASE p.kind = "LinearLeq" ->
         IF s.assignments_integer.lb > p.rhs
           THEN <<{get_literal(Pred("ge", s.assignments_integer.lb))}>>
         ELSE <<>>
    [] p.kind = "LinearGeq" ->
         IF s.assignments_integer.ub < p.rhs
           THEN <<{get_literal(Pred("le", s.assignments_integer.ub))}>>
         ELSE <<>>
    [] p.kind = "Generic" -> p.consistency_check
    [] OTHER -> <<>>

\* The integer domain events and the literal a propagator registers for.
WatchedIntEvents(p) ==
  CASE p.kind = "LinearLeq" -> {"lb"}
    [] p.kind = "LinearGeq" -> {"ub"}
    [] OTHER                -> {}

WatchedLiterals(p) == IF p.reif # 0 THEN {p.reif} ELSE {}

\* ReasonStore::push; the reason reference is the index of the new entry.
reason_store_push(s, propagator_id, reason) ==
  [s EXCEPT !.reason_store =
     Append(@, [level |-> s.assignments_propositional.decision_level,
                propagator |-> propagator_id, reason |-> reason])]

BuildReason(p, reason) == IF p.reif # 0 THEN reason \cup {p.reif} ELSE reason

\* The outcome of a domain operation of a propagator.
DomainResult(s, r) ==
  [s |-> [s EXCEPT !.assignments_integer = r.a],
   status |-> IF r.ok THEN "Ok" ELSE "EmptyDomain"]

LiteralResult(s, r) ==
  [s |-> [s EXCEPT !.assignments_propositional = r.a],
   status |-> IF r.conflict THEN "Other" ELSE "Ok"]

\* PropagationContextMut::set_upper_bound / set_lower_bound / assign_literal;
\* s1 is the solver with the reason stored.
StoredUpperBound(s1, bound) ==
  DomainResult(s1, tighten_upper_bound(s1.assignments_integer, bound,
                                       Len(s1.reason_store)))

set_upper_bound(s, id, bound, reason) ==
  IF bound < s.assignments_integer.ub
    THEN StoredUpperBound(reason_store_push(s, id, reason), bound)
  ELSE [s |-> s, status |-> "Ok"]

StoredLowerBound(s1, bound) ==
  DomainResult(s1, tighten_lower_bound(s1.assignments_integer, bound,
                                       Len(s1.reason_store)))

set_lower_bound(s, id, bound, reason) ==
  IF bound > s.assignments_integer.lb
    THEN StoredLowerBound(reason_store_push(s, id, reason), bound)
  ELSE [s |-> s, status |-> "Ok"]

StoredLiteral(s1, l) ==
  LiteralResult(s1, enqueue_propagated_literal(s1.assignments_propositional, l,
                                               ReasonReference(Len(s1.reason_store))))

assign_literal(s, id, l, reason) ==
  IF is_literal_unassigned(s.assignments_propositional, l)
    THEN StoredLiteral(reason_store_push(s, id, reason), l)
  ELSE [s |-> s, status |-> "Ok"]

\* Propagator::propagate of the wrapped propagator.
WrappedPropagate(p, s, id) ==
  CASE p.kind = "LinearLeq" -> set_upper_bound(s, id, p.rhs, BuildReason(p, {}))
    [] p.kind = "LinearGeq" -> set_lower_bound(s, id, p.rhs, BuildReason(p, {}))
    [] p.kind = "Generic" /\ p.propagation # <<>> ->
         [s |-> s, status |-> "Explanation", explanation |-> p.propagation[1]]
    [] OTHER -> [s |-> s, status |-> "Ok"]

\* A variant that leaves conflict explanations as the wrapped propagator
\* gave them.
map_propagation_status_unchanged(p, status) == status

\* ReifiedPropagator::map_propagation_status
map_propagation_status(p, status) ==
  IF status.status = "Explanation"
    THEN [status EXCEPT !.explanation = @ \cup {p.reif}]
  ELSE status

\* ReifiedPropagator::propagate in its three steps: the stored root
\* inconsistency, propagate_reification, and the wrapped propagation.
ReifiedRootInconsistency(p, s, id) ==
  IF is_literal_unassigned(s.assignments_propositional, p.reif)
       /\ p.root_level_inconsistency # <<>>
    THEN assign_literal(s, id, Neg(p.reif), p.root_level_inconsistency[1])
  ELSE [s |-> s, status |-> "Ok"]

\* A variant that gives the reification literal an empty reason.
propagate_reification_without_reason(p, r, id) ==
  IF r.status # "Ok" THEN r
  ELSE IF is_literal_unassigned(r.s.assignments_propositional, p.reif)
            /\ WrappedDetectInconsistency(p, r.s) # <<>>
    THEN assign_literal(r.s, id, Neg(p.reif), {})
  ELSE r

propagate_reification(p, r, id) ==
  IF r.status # "Ok" THEN r
  ELSE IF is_literal_unassigned(r.s.assignments_propositional, p.reif)
            /\ WrappedDetectInconsistency(p, r.s) # <<>>
    THEN assign_literal(r.s, id, Neg(p.reif), WrappedDetectInconsistency(p, r.s)[1])
  ELSE r

ReifiedWrappedPropagate(p, r, id) ==
  IF r.status # "Ok" THEN r
  ELSE IF is_literal_assigned_true(r.s.assignments_propositional, p.reif)
    THEN map_propagation_status(p, WrappedPropagate(p, r.s, id))
  ELSE r

ReifiedPropagate(p, s, id) ==
  ReifiedWrappedPropagate(
    p, propagate_reification(p, ReifiedRootInconsistency(p, s, id), id), id)

PropagatorPropagate(p, s, id) ==
  IF p.reif # 0 THEN ReifiedPropagate(p, s, id) ELSE WrappedPropagate(p, s, id)

\* Propagator::initialise_at_root: the reified propagator stores the
\* wrapped propagator's root inconsistency and succeeds.
InitialiseAtRoot(p) ==
  IF p.reif # 0
    THEN [p |-> [p EXCEPT !.root_level_inconsistency = WrappedInitialiseAtRoot(p)],
          ok |-> TRUE]
  ELSE [p |-> p, ok |-> WrappedInitialiseAtRoot(p) = <<>>]

\* ------------------------------------------------------ PropagatorQueue
InQueue(q, id) == \E i \in 1 .. Len(q) : q[i] = id

enqueue_propagator(q, id) == IF InQueue(q, id) THEN q ELSE Append(q, id)

RECURSIVE EnqueueAll(_, _)
EnqueueAll(q, ids) ==
  IF ids = {} THEN q
  ELSE EnqueueAll(enqueue_propagator(q, SetMin(ids)), ids \ {SetMin(ids)})


\* ----------------------------------------- ConstraintSatisfactionSolver
\* P3: every predicate of x holds in the integer trail exactly when its
\* literal is assigned true.
LiteralPredicateConsistent(s) ==
  \A p \in Predicates :
     is_literal_assigned_true(s.assignments_propositional, get_literal(p))
       <=> does_integer_predicate_hold(s.assignments_integer, p)

\* Record, for the operation in progress, whether P3 held after a
\* synchronisation call of the given kind.
Observe(s, call) ==
  [s EXCEPT !.observed = @ \cup
     {[call |-> call, consistent |-> LiteralPredicateConsistent(s),
       empty |-> s.assignments_integer.lb > s.assignments_integer.ub,
       undone |-> FALSE]}]

is_watching_anything_cp(s) ==
  \E i \in 1 .. Len(s.cp_propagators) : WatchedIntEvents(s.cp_propagators[i]) # {}

is_watching_anything_propositional(s) ==
  \E i \in 1 .. Len(s.cp_propagators) : WatchedLiterals(s.cp_propagators[i]) # {}

\* The propagators process_domain_events notifies.
NotifiedByEvents(s) ==
  {i \in 1 .. Len(s.cp_propagators) :
     is_watching_anything_cp(s)
     /\ WatchedIntEvents(s.cp_propagators[i]) \cap s.assignments_integer.events # {}}

NotifiedByLiterals(s) ==
  {i \in 1 .. Len(s.cp_propagators) :
     \E k \in (s.propositional_trail_index + 1) .. Len(s.assignments_propositional.trail) :
        s.assignments_propositional.trail[k].literal
          \in WatchedLiterals(s.cp_propagators[i])}

process_domain_events(s) ==
  IF is_watching_anything_cp(s) /\ s.assignments_integer.events = {}
       /\ s.propositional_trail_index = Len(s.assignments_propositional.trail)
    THEN s
  ELSE IF is_watching_anything_propositional(s)
    THEN [s EXCEPT
            !.propagator_queue =
               EnqueueAll(EnqueueAll(@, NotifiedByEvents(s)), NotifiedByLiterals(s)),
            !.propositional_trail_index = Len(s.assignments_propositional.trail),
            !.assignments_integer.events =
               IF is_watching_anything_cp(s) THEN {} ELSE @]
  ELSE [s EXCEPT
          !.propagator_queue = EnqueueAll(@, NotifiedByEvents(s)),
          !.assignments_integer.events =
             IF is_watching_anything_cp(s) THEN {} ELSE @]

\* synchronise_propositional_trail_based_on_integer_trail: every integer
\* trail entry with a reason, from the synced position on, becomes a
\* propagated literal, followed by clausal propagation.
RECURSIVE SyncPropFromInt(_, _)
SyncPropClausal(s, pos, c) ==
  IF c.conflict
    THEN [s |-> [s EXCEPT !.assignments_propositional = c.a,
                          !.cp_trail_synced_position = pos],
          conflict |-> TRUE]
  ELSE SyncPropFromInt([s EXCEPT !.assignments_propositional = c.a], pos + 1)

SyncPropEntry(s, pos, r) ==
  IF r.conflict
    THEN [s |-> [s EXCEPT !.cp_trail_synced_position = pos], conflict |-> TRUE]
  ELSE SyncPropClausal(s, pos, ClausalPropagate(r.a, s.clauses))

SyncPropFromInt(s, pos) ==
  IF pos > Len(s.assignments_integer.trail)
    THEN [s |-> [s EXCEPT !.cp_trail_synced_position = Len(s.assignments_integer.trail)],
          conflict |-> FALSE]
  ELSE IF s.assignments_integer.trail[pos].reason = 0 THEN SyncPropFromInt(s, pos + 1)
  ELSE SyncPropEntry(s, pos,
         enqueue_propagated_literal(
           s.assignments_propositional,
           get_literal(s.assignments_integer.trail[pos].predicate),
           ReasonReference(s.assignments_integer.trail[pos].reason)))

ObservedPropFromInt(r) ==
  [s |-> Observe(r.s, IF r.conflict THEN "prop_from_int_conflict" ELSE "prop_from_int"),
   conflict |-> r.conflict]

\* A variant whose loop starts one trail entry too late.
synchronise_propositional_trail_skipping_an_entry(s) ==
  ObservedPropFromInt(SyncPropFromInt(s, s.cp_trail_synced_position + 2))

synchronise_propositional_trail_based_on_integer_trail(s) ==
  ObservedPropFromInt(SyncPropFromInt(s, s.cp_trail_synced_position + 1))

\* synchronise_literal for the Boolean trail entries from pos on; a literal
\* of x has one predicate.
RECURSIVE SyncIntFromProp(_, _, _)
SyncIntEntry(r, trail, pos) ==
  IF r.ok THEN SyncIntFromProp(r.a, trail, pos + 1) ELSE r

SyncIntFromProp(ai, trail, pos) ==
  IF pos > Len(trail) THEN [a |-> ai, ok |-> TRUE]
  ELSE IF literal_to_predicates(trail[pos].literal) = <<>>
    THEN SyncIntFromProp(ai, trail, pos + 1)
  ELSE SyncIntEntry(
         apply_integer_predicate(ai, literal_to_predicates(trail[pos].literal)[1], 0),
         trail, pos)

ObservedIntFromProp(s, r) ==
  IF ~r.ok
    THEN [s |-> Observe([s EXCEPT !.assignments_integer = r.a], "int_from_prop_error"),
          ok |-> FALSE]
  ELSE [s |-> Observe(
                process_domain_events(
                  [s EXCEPT !.assignments_integer = r.a,
                            !.sat_trail_synced_position =
                               Len(s.assignments_propositional.trail),
                            !.cp_trail_synced_position = Len(r.a.trail)]),
                "int_from_prop"),
        ok |-> TRUE]

\* A variant whose loop starts one trail entry too late.
synchronise_integer_trail_skipping_an_entry(s) ==
  ObservedIntFromProp(
    s, SyncIntFromProp(s.assignments_integer, s.assignments_propositional.trail,
                       s.sat_trail_synced_position + 2))

synchronise_integer_trail_based_on_propositional_trail(s) ==
  ObservedIntFromProp(
    s, SyncIntFromProp(s.assignments_integer, s.assignments_propositional.trail,
                       s.sat_trail_synced_position + 1))

\* propagate_cp_one_step: the outcome of the popped propagator.
\* A variant that takes an empty domain for the end of propagation.
PropagatorOutcomeStoppingAtEmptyDomain(r) ==
  CASE r.status = "EmptyDomain" ->
         [s |-> Observe(r.s, "propagator_empty_domain"), status |-> "FixedPoint"]
    [] r.status \in {"Other", "Explanation"} -> [s |-> r.s, status |-> "ConflictDetected"]
    [] OTHER -> [s |-> process_domain_events(r.s), status |-> "PropagationHappened"]

PropagatorOutcome(r) ==
  CASE r.status = "EmptyDomain" ->
         [s |-> Observe(r.s, "propagator_empty_domain"), status |-> "PropagationHappened"]
    [] r.status \in {"Other", "Explanation"} -> [s |-> r.s, status |-> "ConflictDetected"]
    [] OTHER -> [s |-> process_domain_events(r.s), status |-> "PropagationHappened"]

propagate_cp_one_step(s) ==
  IF s.propagator_queue = <<>> THEN [s |-> s, status |-> "FixedPoint"]
  ELSE PropagatorOutcome(
         PropagatorPropagate(s.cp_propagators[Head(s.propagator_queue)],
                             [s EXCEPT !.propagator_queue = Tail(@)],
                             Head(s.propagator_queue)))

\* The loop of propagate_enqueued, one operator per step of its body.
RECURSIVE PropagateLoop(_)
PropagatorConflict(r) ==
  declare_conflict(r.s, IF r.conflict THEN "Propagation" ELSE "Explanation")

PropagateAfterStep(r) ==
  CASE r.status = "PropagationHappened" -> PropagateLoop(r.s)
    [] r.status = "FixedPoint" -> r.s
    [] OTHER ->
         PropagatorConflict(synchronise_propositional_trail_based_on_integer_trail(r.s))

PropagateAfterIntegerSync(r) ==
  IF ~r.ok THEN Panic(r.s, "should not be an error")
  ELSE PropagateAfterStep(propagate_cp_one_step(r.s))

PropagateAfterClausal(s, c) ==
  IF c.conflict
    THEN declare_conflict([s EXCEPT !.assignments_propositional = c.a], "Propagation")
  ELSE PropagateAfterIntegerSync(
         synchronise_integer_trail_based_on_propositional_trail(
           [s EXCEPT !.assignments_propositional = c.a]))

PropagateAfterPropositionalSync(r) ==
  IF r.conflict THEN declare_conflict(r.s, "Propagation")
  ELSE PropagateAfterClausal(
         r.s, ClausalPropagate(r.s.assignments_propositional, r.s.clauses))

PropagateLoop(s) ==
  PropagateAfterPropositionalSync(
    synchronise_propositional_trail_based_on_integer_trail(s))

\* The end of a propagate_enqueued call in which a propagator reported an
\* empty domain is recorded with the state the call ends in.
PropagationEnded(s1) ==
  IF \A o \in s1.observed : o.call # "propagator_empty_domain" THEN s1
  ELSE Observe(s1, IF s1.panic # "" THEN "empty_domain_then_panic"
                   ELSE IF conflicting(s1.state) THEN "empty_domain_then_conflict"
                   ELSE "empty_domain_then_no_conflict")

\* Main propagation loop.
propagate_enqueued(s) == IF s.panic # "" THEN s ELSE PropagationEnded(PropagateLoop(s))

get_decision_level(s) == s.assignments_propositional.decision_level

\* What backtracking has to restore: the bounds and holes of x, the
\* literal assignment with its reasons, and the stored reasons.
RestorableView(s) ==
  [lb |-> s.assignments_integer.lb, ub |-> s.assignments_integer.ub,
   holes |-> s.assignments_integer.holes,
   assignment |-> s.assignments_propositional.trail,
   reasons |-> s.reason_store]

declare_new_decision_level(s) ==
  [s EXCEPT !.assignments_propositional.decision_level = @ + 1,
            !.assignments_integer.decision_level = @ + 1,
            !.snapshots = Append(@, RestorableView(s))]

\* ReasonStore::synchronise
reason_store_synchronise(store, level) ==
  SelectSeq(store, LAMBDA r : r.level <= level)

synchronise_assignments(s) ==
  IF s.sat_trail_synced_position >= Len(s.assignments_propositional.trail)
       /\ s.cp_trail_synced_position >= Len(s.assignments_integer.trail)
    THEN [s EXCEPT !.cp_trail_synced_position = Len(s.assignments_integer.trail),
                   !.sat_trail_synced_position = Len(s.assignments_propositional.trail)]
  ELSE Panic(s, "synchronise_assignments")

\* A variant that leaves the reason store as it is.
BacktrackTrailsKeepingReasons(s, backtrack_level) ==
  [s EXCEPT
     !.assignments_propositional = synchronise_propositional(@, backtrack_level),
     !.propositional_trail_index =
        IF @ < Len(PrefixUpToLevel(s.assignments_propositional.trail, backtrack_level))
          THEN @
        ELSE Len(PrefixUpToLevel(s.assignments_propositional.trail, backtrack_level)),
     !.assignments_integer = synchronise_integer(@, backtrack_level),
     !.propagator_queue = <<>>]

\* The trails, the reason store and the queue cut back to the level.
BacktrackTrails(s, backtrack_level) ==
  [s EXCEPT
     !.assignments_propositional = synchronise_propositional(@, backtrack_level),
     !.propositional_trail_index =
        IF @ < Len(PrefixUpToLevel(s.assignments_propositional.trail, backtrack_level))
          THEN @
        ELSE Len(PrefixUpToLevel(s.assignments_propositional.trail, backtrack_level)),
     !.assignments_integer = synchronise_integer(@, backtrack_level),
     !.reason_store = reason_store_synchronise(@, backtrack_level),
     !.propagator_queue = <<>>]

\* Whether the backtrack restored the view saved when the level above
\* backtrack_level was opened; the record's last field tells whether the
\* backtrack dropped stored reasons and gave values back to the domain.
BacktrackObserved(s, s2, backtrack_level) ==
  IF s2.panic # "" THEN s2
  ELSE Observe(
         [s2 EXCEPT !.observed = @ \cup
            {[call |-> "backtrack_restores",
              consistent |-> RestorableView(s2) = s2.snapshots[backtrack_level + 1],
              empty |-> FALSE,
              undone |-> /\ Len(s2.reason_store) < Len(s.reason_store)
                         /\ s2.assignments_integer.holes # s.assignments_integer.holes]},
                    !.snapshots = SubSeq(@, 1, backtrack_level)],
         "backtrack")

backtrack(s, backtrack_level) ==
  IF s.panic # "" THEN s
  ELSE IF ~(backtrack_level < get_decision_level(s)) THEN Panic(s, "backtrack")
  ELSE BacktrackObserved(s, synchronise_assignments(BacktrackTrails(s, backtrack_level)),
                         backtrack_level)

\* ConflictAnalysisContext::backtrack repeats the statements of
\* ConstraintSatisfactionSolver::backtrack on the borrowed fields.
context_backtrack(s, backtrack_level) == backtrack(s, backtrack_level)

\* ConflictAnalysisContext::enqueue_propagated_literal
ContextEnqueued(s, r) ==
  IF r.conflict THEN Panic(s, "The propagated literal should not be assigned already")
  ELSE [s EXCEPT !.assignments_propositional = r.a]

context_enqueue_propagated_literal(s, l) ==
  IF s.panic # "" THEN s
  ELSE ContextEnqueued(
         s, enqueue_propagated_literal(s.assignments_propositional, l, NonReason))

\* A variant that undoes the level of the conflict and flips nothing.
NoLearningProcessWithoutFlip(s) ==
  IF get_last_decision(s.assignments_propositional) = 0
    THEN Panic(s, "Expected to be able to get the last decision")
  ELSE context_backtrack(s, get_decision_level(s) - 1)

\* NoLearning::process: backtrack one level and flip the last decision.
NoLearningProcess(s) ==
  IF get_last_decision(s.assignments_propositional) = 0
    THEN Panic(s, "Expected to be able to get the last decision")
  ELSE context_enqueue_propagated_literal(
         context_backtrack(s, get_decision_level(s) - 1),
         Neg(get_last_decision(s.assignments_propositional)))

\* UniqueImplicationPoint::resolve_conflict is todo!().
UniqueImplicationPointResolveConflict(s) == Panic(s, "not yet implemented")

\* resolve_conflict: compute_learned_clause, then process_learned_clause;
\* NoLearning::resolve_conflict returns no nogood.
ConflictProcessed(s1) == IF s1.panic # "" THEN s1 ELSE declare_solving(s1)

resolve_conflict(s, resolver) ==
  IF resolver = "NoLearning"
    THEN ConflictProcessed([NoLearningProcess(s) EXCEPT !.learned = <<>>])
  ELSE UniqueImplicationPointResolveConflict(s)

\* A variant that accepts a falsified assumption like a satisfied one.
enqueue_assumption_literal_accepting(s, assumption_literal) ==
  IF is_literal_unassigned(s.assignments_propositional, assumption_literal)
    THEN [s |-> [s EXCEPT !.assignments_propositional =
                    enqueue_decision_literal(@, assumption_literal)],
          success |-> TRUE]
  ELSE [s |-> s, success |-> TRUE]

\* Returns the solver and whether the assumption was enqueued.
enqueue_assumption_literal(s, assumption_literal) ==
  IF is_literal_unassigned(s.assignments_propositional, assumption_literal)
    THEN [s |-> [s EXCEPT !.assignments_propositional =
                    enqueue_decision_literal(@, assumption_literal)],
          success |-> TRUE]
  ELSE IF is_literal_assigned_true(s.assignments_propositional, assumption_literal)
    THEN [s |-> s, success |-> TRUE]
  ELSE [s |-> declare_infeasible_under_assumptions(s, assumption_literal),
        success |-> FALSE]

are_all_assumptions_assigned(s) == get_decision_level(s) > Len(s.assumptions)

peek_next_assumption_literal(s) == s.assumptions[get_decision_level(s)]

AssumptionEnqueued(r) ==
  [s |-> r.s, flag |-> IF r.success THEN "continue" ELSE "Infeasible"]

\* decision is the literal of the predicate the brancher returns, 0 for None.
enqueue_next_decision(s, decision) ==
  IF ~are_all_assumptions_assigned(s)
    THEN AssumptionEnqueued(enqueue_assumption_literal(s, peek_next_assumption_literal(s)))
  ELSE IF decision # 0
    THEN [s |-> [s EXCEPT !.assignments_propositional =
                    enqueue_decision_literal(@, decision)],
          flag |-> "continue"]
  ELSE [s |-> declare_solution_found(s), flag |-> "Feasible"]

\* The body of the loop of solve_internal after the poll of the termination
\* condition; propagated is the solver as propagate_enqueued left it.
WithPropagated(r, s1) == [s |-> r.s, flag |-> r.flag, propagated |-> s1]

ConflictResolved(s2, s1) ==
  [s |-> s2, flag |-> IF is_inconsistent(s2.state) THEN "Infeasible" ELSE "continue",
   propagated |-> s1]

\* A variant that hands a conflict at the root to the conflict resolver.
SolveInternalPropagatedResolvingAtRoot(s1, decision, resolver) ==
  IF s1.panic # "" THEN [s |-> s1, flag |-> "continue", propagated |-> s1]
  ELSE IF no_conflict(s1.state)
    THEN WithPropagated(
           enqueue_next_decision(declare_new_decision_level(s1), decision), s1)
  ELSE ConflictResolved(resolve_conflict(s1, resolver), s1)

\* A variant that gives up at the first conflict, at any level.
SolveInternalPropagatedGivingUp(s1, decision, resolver) ==
  IF s1.panic # "" THEN [s |-> s1, flag |-> "continue", propagated |-> s1]
  ELSE IF no_conflict(s1.state)
    THEN WithPropagated(
           enqueue_next_decision(declare_new_decision_level(s1), decision), s1)
  ELSE [s |-> declare_infeasible(s1), flag |-> "Infeasible", propagated |-> s1]

SolveInternalPropagated(s1, decision, resolver) ==
  IF s1.panic # "" THEN [s |-> s1, flag |-> "continue", propagated |-> s1]
  ELSE IF no_conflict(s1.state)
    THEN WithPropagated(
           enqueue_next_decision(declare_new_decision_level(s1), decision), s1)
  ELSE IF get_decision_level(s1) = 0
    THEN [s |-> declare_infeasible(s1), flag |-> "Infeasible", propagated |-> s1]
  ELSE ConflictResolved(resolve_conflict(s1, resolver), s1)

\* A variant that polls the termination condition after propagation.
SolveInternalIterationPollingLate(s, should_stop, decision, resolver) ==
  IF should_stop
    THEN [s |-> declare_timeout(propagate_enqueued(s)), flag |-> "Timeout",
          propagated |-> s]
  ELSE SolveInternalPropagated(propagate_enqueued(s), decision, resolver)

\* One iteration of the loop of solve_internal.
SolveInternalIteration(s, should_stop, decision, resolver) ==
  IF should_stop THEN [s |-> declare_timeout(s), flag |-> "Timeout", propagated |-> s]
  ELSE SolveInternalPropagated(propagate_enqueued(s), decision, resolver)

\* ClausalPropagator::add_permanent_clause at the root: falsified literals
\* are dropped, a satisfied clause is not stored, a unit clause goes on the
\* trail.  ok = FALSE when no literal is left.
KeptLiterals(s, literals) ==
  SelectSeq(literals,
            LAMBDA l : ~is_literal_assigned_false(s.assignments_propositional, l))

add_permanent_clause(s, literals) ==
  IF \E i \in 1 .. Len(literals) :
        is_literal_assigned_true(s.assignments_propositional, literals[i])
    THEN [s |-> s, ok |-> TRUE]
  ELSE IF KeptLiterals(s, literals) = <<>> THEN [s |-> s, ok |-> FALSE]
  ELSE IF Len(KeptLiterals(s, literals)) = 1
    THEN [s |-> [s EXCEPT !.assignments_propositional =
                    enqueue_decision_literal(@, KeptLiterals(s, literals)[1])],
          ok |-> TRUE]
  ELSE [s |-> [s EXCEPT !.clauses = Append(@, KeptLiterals(s, literals))], ok |-> TRUE]

\* add_clause after its propagation: the state is tested for Infeasible.
AddClausePropagated(s1) ==
  IF is_infeasible(s1.state)
    THEN [s |-> declare_infeasible(s1), result |-> "InfeasibleClause"]
  ELSE [s |-> s1, result |-> "Ok"]

AddClauseInserted(r) ==
  IF ~r.ok THEN [s |-> declare_infeasible(r.s), result |-> "InfeasibleClause"]
  ELSE AddClausePropagated(propagate_enqueued(r.s))

add_clause(s, literals) ==
  IF is_infeasible(s.state) THEN [s |-> s, result |-> "InfeasibleState"]
  ELSE AddClauseInserted(add_permanent_clause(s, literals))

\* add_propagator after its propagation: the state is tested for a conflict.
AddPropagatorPropagated(s2) ==
  [s |-> s2, result |-> IF no_conflict(s2.state) THEN "Ok" ELSE "InfeasiblePropagator"]

AddPropagatorInitialised(s1, ok) ==
  IF ~ok THEN [s |-> declare_infeasible(s1), result |-> "InfeasiblePropagator"]
  ELSE AddPropagatorPropagated(
         propagate_enqueued(
           [s1 EXCEPT !.propagator_queue =
              enqueue_propagator(@, Len(s1.cp_propagators))]))

add_propagator(s, propagator_to_add) ==
  IF is_inconsistent(s.state) THEN [s |-> s, result |-> "InfeasiblePropagator"]
  ELSE AddPropagatorInitialised(
         [s EXCEPT !.cp_propagators = Append(@, InitialiseAtRoot(propagator_to_add).p)],
         InitialiseAtRoot(propagator_to_add).ok)

restore_state_at_root(s) ==
  IF get_decision_level(s) # 0 THEN declare_ready(backtrack(s, 0)) ELSE s

\* The history of a solver: the clauses and the propagators its clients
\* have handed to add_clause and add_propagator so far.
NothingPosted == [clauses |-> {}, propagators |-> {}]

PostingClause(s, literals) == [s EXCEPT !.posted.clauses = @ \cup {literals}]

PostingPropagator(s, q) == [s EXCEPT !.posted.propagators = @ \cup {q}]

\* The fields of a solver before ConstraintSatisfactionSolver::new adds the
\* true literal; x and the free variables are created up front.
EmptySolver ==
  [state |-> StateOf("Ready"),
   assignments_propositional |-> InitialAssignmentsPropositional,
   assignments_integer |-> InitialAssignmentsInteger,
   clauses |-> ChannellingClauses,
   cp_propagators |-> <<>>,
   propagator_queue |-> <<>>,
   reason_store |-> <<>>,
   cp_trail_synced_position |-> 0,
   sat_trail_synced_position |-> 0,
   propositional_trail_index |-> 0,
   assumptions |-> <<>>,
   learned |-> <<>>,
   panic |-> "",
   observed |-> {},
   posted |-> NothingPosted,
   snapshots |-> <<>>]

\* ConstraintSatisfactionSolver::new: add_clause([true_literal]).
InitialSolver == [add_clause(EmptySolver, <<true_literal>>).s EXCEPT !.observed = {}]

\* AssignmentsPropositional::is_literal_propagated: the variable of the
\* literal was assigned with a reason.
is_literal_propagated(ap, l) ==
  is_literal_assigned(ap, l) /\ TrailEntryOf(ap, l).reason # NullReason

\* A variant that reports conflicting assumptions as a core.
compute_clausal_core_without_err(s) ==
  IF is_infeasible(s.state) THEN [s |-> s, result |-> "Ok", returned |-> <<>>]
  ELSE IF ~is_infeasible_under_assumptions(s.state)
    THEN [s |-> Panic(s, "Cannot extract violated assumption"), result |-> "Panic",
          returned |-> <<>>]
  ELSE IF is_literal_root_assignment(s.assignments_propositional,
                                     s.state.violated_assumption)
            \/ ~is_literal_propagated(s.assignments_propositional,
                                      s.state.violated_assumption)
    THEN [s |-> s, result |-> "Ok", returned |-> <<s.state.violated_assumption>>]
  ELSE [s |-> Panic(s, "not yet implemented"), result |-> "Panic", returned |-> <<>>]

\* ResolutionConflictAnalyser::compute_clausal_core: Ok(core), or
\* Err(literal) with the literal returned; the standard case is todo!().
compute_clausal_core(s) ==
  IF is_infeasible(s.state) THEN [s |-> s, result |-> "Ok", returned |-> <<>>]
  ELSE IF ~is_infeasible_under_assumptions(s.state)
    THEN [s |-> Panic(s, "Cannot extract violated assumption"), result |-> "Panic",
          returned |-> <<>>]
  ELSE IF is_literal_root_assignment(s.assignments_propositional,
                                     s.state.violated_assumption)
    THEN [s |-> s, result |-> "Ok", returned |-> <<s.state.violated_assumption>>]
  ELSE IF ~is_literal_propagated(s.assignments_propositional,
                                 s.state.violated_assumption)
    THEN [s |-> s, result |-> "Err", returned |-> <<s.state.violated_assumption>>]
  ELSE [s |-> Panic(s, "not yet implemented"), result |-> "Panic", returned |-> <<>>]

\* ------------------------------------------------------------ the menus
Clause(c) == [kind |-> "clause", literals |-> c, propagator |-> 0]
Constraint(q) == [kind |-> "propagator", literals |-> <<>>, propagator |-> q]

\* B1 -> x >= 1
ReifiedGeq == Propagator("LinearGeq", 1, 0, B1)
\* x >= XMax + 1, which no value of x satisfies
InfeasibleGeq == Propagator("LinearGeq", XMax + 1, 0, 0)
FailingInitialise == Propagator("FailInit", 0, 0, 0)

\* The models that Model::into_solver lowers.
ModelMenu ==
  {<<Clause(<<B1, B2>>), Clause(<<B1, Neg(B2)>>),
     Clause(<<Neg(B1), B2>>), Clause(<<Neg(B1), Neg(B2)>>)>>,
   <<Constraint(ReifiedGeq)>>}

\* The arguments of add_clause and add_propagator calls on the solver.
ClauseMenu == {<<B1>>, <<Neg(B1)>>, <<Neg(GeVar(1))>>}

PropagatorMenu == {ReifiedGeq, InfeasibleGeq, FailingInitialise}

AssumptionMenu == {<<>>, <<B1>>, <<true_literal>>, <<B1, Neg(B1)>>}

\* The literals the brancher decides on.
DecisionLiterals == {B1, Neg(B1), B2, Neg(B2), GeVar(1), Neg(GeVar(1)), Neg(EqVar(1))}

\* The literals a brancher may return: any unassigned one; None (0) only
\* when every variable it branches on is assigned.
BrancherNextDecision(s) ==
  LET un == {l \in DecisionLiterals :
               is_literal_unassigned(s.assignments_propositional, l)} IN
  IF un = {} THEN {0} ELSE un

\* ------------------------------------------------------------ the system
VARIABLES solver, model, lowered, pc, flag, last, stop, resolver, failed, adds, iters,
          processor, client, checking, view

vars == <<solver, model, lowered, pc, flag, last, stop, resolver, failed, adds, iters,
          processor, client, checking, view>>

\* What an operation leaves behind for inspection: everything but the
\* record of the synchronisation calls of the operation in progress.
Fresh(s) == [s EXCEPT !.observed = {}]

\* The last operation: its name and result, the decision level it started
\* at, whether an earlier addition had failed, whether the termination
\* condition had fired, whether it left the solver as it was, whether its
\* propagation found a conflict, the falsified assumption it met and the
\* last decision at the conflict (0: none).  frame: it changed at most the
\* solver state; opened: it opened a decision level.
Op(op, result, before, after) ==
  [op |-> op, result |-> result,
   level |-> get_decision_level(before),
   failed_before |-> FALSE, stopped |-> FALSE,
   unchanged |-> (Fresh(after) = [Fresh(before) EXCEPT !.posted = after.posted]),
   frame |-> ([Fresh(after) EXCEPT !.state = before.state]
                = [Fresh(before) EXCEPT !.posted = after.posted]),
   conflict |-> FALSE, falsified |-> 0, decision |-> 0, opened |-> FALSE,
   returned |-> <<>>, state_before |-> before.state.kind]

\* Spec builds no proof processor and no proof checker.
NoProcessor == <<>>
NoChecking == <<>>
NoView == [op |-> "none"]

PcAfter(s, next) == IF s.panic # "" THEN "panicked" ELSE next

Init ==
  /\ solver = InitialSolver
  /\ model \in ModelMenu
  /\ lowered = 0
  /\ pc = "lowering"
  /\ flag = "None"
  /\ last = Op("new", "Ok", InitialSolver, InitialSolver)
  /\ stop = FALSE
  /\ resolver \in {"NoLearning", "UniqueImplicationPoint"}
  /\ failed = FALSE
  /\ adds = 0
  /\ iters = 0
  /\ processor = NoProcessor
  /\ client = "None"
  /\ checking = NoChecking
  /\ view = NoView

\* Constraint::post of a clause or of a propagator.
Post(s, c) ==
  IF c.kind = "clause" THEN add_clause(PostingClause(s, c.literals), c.literals)
  ELSE add_propagator(PostingPropagator(s, c.propagator), c.propagator)

\* One iteration of the loop of add_constraints (Model::into_solver), or
\* its end when every constraint has been posted.
Posted(r) ==
  /\ solver' = r.s
  /\ pc' = PcAfter(r.s, IF r.result = "Ok" THEN "lowering" ELSE "idle")
  /\ last' = [Op("post", r.result, solver, r.s) EXCEPT !.failed_before = failed]
  /\ failed' = (failed \/ (r.s.panic = "" /\ r.result # "Ok"))
  /\ lowered' = lowered + 1

LowerConstraint ==
  /\ pc = "lowering"
  /\ IF lowered = Len(model)
       THEN /\ solver' = Fresh(solver)
            /\ pc' = "idle"
            /\ last' = Op("lower", "Done", solver, solver)
            /\ UNCHANGED <<failed, lowered>>
     ELSE IF stop
       THEN /\ solver' = Fresh(solver)
            /\ pc' = "idle"
            /\ last' = [Op("lower", "Stopped", solver, solver) EXCEPT !.stopped = TRUE]
            /\ UNCHANGED <<failed, lowered>>
     ELSE Posted(Post(Fresh(solver), model[lowered + 1]))
  /\ UNCHANGED <<model, flag, stop, resolver, adds, iters, processor, client, checking, view>>

\* A call of add_clause or add_propagator on the solver at the root.
Added(op, r) ==
  /\ solver' = r.s
  /\ pc' = PcAfter(r.s, "idle")
  /\ last' = [Op(op, r.result, solver, r.s) EXCEPT
                !.failed_before = failed,
                !.conflict = conflicting(r.s.state)]
  /\ failed' = (failed \/ (r.s.panic = "" /\ r.result # "Ok"))
  /\ adds' = adds + 1
  /\ UNCHANGED <<model, lowered, flag, stop, resolver, iters, processor, client, checking, view>>

AddClause(c) ==
  /\ pc = "idle"
  /\ adds < MaxAdds
  /\ get_decision_level(solver) = 0
  /\ Added("add_clause", add_clause(PostingClause(Fresh(solver), c), c))

AddPropagator(q) ==
  /\ pc = "idle"
  /\ adds < MaxAdds
  /\ get_decision_level(solver) = 0
  /\ Added("add_propagator", add_propagator(PostingPropagator(Fresh(solver), q), q))

\* solve_under_assumptions up to the loop of solve_internal.
SolveStarted(s1) ==
  /\ solver' = s1
  /\ pc' = PcAfter(s1, "solving")
  /\ flag' = "None"
  /\ last' = Op("solve", "Started", solver, s1)

SolveUnderAssumptions(assumptions) ==
  /\ pc = "idle"
  /\ IF is_inconsistent(solver.state)
       THEN /\ solver' = Fresh(solver)
            /\ pc' = "idle"
            /\ flag' = "Infeasible"
            /\ last' = Op("solve", "Infeasible", solver, solver)
     ELSE SolveStarted([declare_solving(Fresh(solver)) EXCEPT !.assumptions = assumptions])
  /\ stop' = FALSE
  /\ iters' = 0
  /\ UNCHANGED <<model, lowered, resolver, failed, adds, processor, client, checking, view>>

\* The iteration opened a decision level: propagation ended without panic
\* or conflict.
Quiet(r) == ~stop /\ r.propagated.panic = "" /\ no_conflict(r.propagated.state)

AssumptionPending(r) ==
  Quiet(r) /\ get_decision_level(r.propagated) + 1 <= Len(r.propagated.assumptions)

FoundConflict(r) == ~stop /\ conflicting(r.propagated.state)

\* One iteration of the loop of solve_internal; the brancher is consulted
\* when propagation found no conflict and no assumption is left.
Iterated(r, decision) ==
  /\ IF Quiet(r) /\ ~AssumptionPending(r)
       THEN decision \in BrancherNextDecision(r.propagated)
     ELSE decision = 0
  /\ solver' = r.s
  /\ pc' = PcAfter(r.s, IF r.flag = "continue" THEN "solving" ELSE "idle")
  /\ flag' = IF r.flag = "continue" \/ r.s.panic # "" THEN flag ELSE r.flag
  /\ last' = [Op("iteration", r.flag, solver, r.s) EXCEPT
                !.stopped = stop,
                !.conflict = FoundConflict(r),
                !.falsified =
                   IF AssumptionPending(r)
                      /\ is_literal_assigned_false(
                           r.propagated.assignments_propositional,
                           r.propagated.assumptions[get_decision_level(r.propagated) + 1])
                     THEN r.propagated.assumptions[get_decision_level(r.propagated) + 1]
                   ELSE 0,
                !.decision =
                   IF FoundConflict(r)
                     THEN get_last_decision(r.propagated.assignments_propositional)
                   ELSE 0,
                !.opened = Quiet(r)]

SolveIteration(decision) ==
  /\ pc = "solving"
  /\ iters < MaxIters
  /\ Iterated(SolveInternalIteration(Fresh(solver), stop, decision, resolver), decision)
  /\ iters' = iters + 1
  /\ UNCHANGED <<model, lowered, stop, resolver, failed, adds, processor, client, checking, view>>

Restored(s1) ==
  /\ solver' = s1
  /\ pc' = PcAfter(s1, "idle")
  /\ last' = Op("restore", "Ok", solver, s1)

RestoreStateAtRoot ==
  /\ pc = "idle"
  /\ last.op # "restore"
  /\ Restored(restore_state_at_root(Fresh(solver)))
  /\ UNCHANGED <<model, lowered, flag, stop, resolver, failed, adds, iters, processor, client, checking, view>>

\* The core is extracted once a solve has ended infeasible.
CoreComputed(r) ==
  /\ solver' = r.s
  /\ pc' = PcAfter(r.s, "idle")
  /\ last' = [Op("compute_clausal_core", r.result, solver, r.s) EXCEPT
                !.returned = r.returned]

ComputeClausalCore ==
  /\ pc = "idle"
  /\ last.op # "compute_clausal_core"
  /\ is_infeasible(solver.state) \/ is_infeasible_under_assumptions(solver.state)
  /\ CoreComputed(compute_clausal_core(Fresh(solver)))
  /\ UNCHANGED <<model, lowered, flag, stop, resolver, failed, adds, iters, processor,
                 client, checking, view>>

\* The termination condition starts to report should_stop.
Tick ==
  /\ pc \in {"lowering", "solving"}
  /\ ~stop
  /\ stop' = TRUE
  /\ solver' = Fresh(solver)
  /\ last' = Op("tick", "Ok", solver, solver)
  /\ UNCHANGED <<model, lowered, pc, flag, resolver, failed, adds, iters, processor, client, checking, view>>

Next ==
  \/ LowerConstraint
  \/ \E c \in ClauseMenu : AddClause(c)
  \/ \E q \in PropagatorMenu : AddPropagator(q)
  \/ \E a \in AssumptionMenu : SolveUnderAssumptions(a)
  \/ \E d \in DecisionLiterals \cup {0} : SolveIteration(d)
  \/ RestoreStateAtRoot
  \/ ComputeClausalCore
  \/ Tick

Spec == Init /\ [][Next]_vars

\* ---------------------------------------------------------------- RpEngine
\* A HashMap as a function: insert overwrites, remove drops the key.
MapInsert(m, k, v) == [x \in DOMAIN m \cup {k} |-> IF x = k THEN v ELSE m[x]]
MapRemove(m, k) == [x \in DOMAIN m \ {k} |-> m[x]]

\* RpClause::Unit and RpClause::ClauseRef
Unit(literal) == [kind |-> "Unit", literal |-> literal, reference |-> 0]
ClauseRef(reference) == [kind |-> "ClauseRef", literal |-> 0, reference |-> reference]

\* RpEngine::new.  A handle is the position of its clause in rp_clauses,
\* counted from 1.
RpEngineNew(s) ==
  [solver |-> s, rp_clauses |-> <<>>,
   rp_unit_clauses |-> <<>>, rp_allocated_clauses |-> <<>>]

is_conflicting(s) == conflicting(s.state)

Negated(literals) == [i \in 1 .. Len(literals) |-> Neg(literals[i])]

\* add_allocated_deletable_clause stores the clause under a new reference;
\* delete_allocated_clause releases the reference, and the allocator hands
\* a released reference out again.
RECURSIVE ReleaseTrailing(_)
ReleaseTrailing(clauses) ==
  IF clauses # <<>> /\ clauses[Len(clauses)] = <<>>
    THEN ReleaseTrailing(SubSeq(clauses, 1, Len(clauses) - 1))
  ELSE clauses

add_allocated_deletable_clause(s, clause) == [s EXCEPT !.clauses = Append(@, clause)]

delete_allocated_clause(s, reference) ==
  [s EXCEPT !.clauses = ReleaseTrailing([@ EXCEPT ![reference] = <<>>])]

\* ConflictReason::Clause and ConflictReason::Propagator; the tag of a
\* propagator is its position among the posted constraints.
ClauseEdge(handle) ==
  [kind |-> "Clause", handle |-> handle, premises |-> <<>>, propagated |-> 0,
   tag |-> 0, label |-> ""]

PropagatorEdge(tag, label, propagated) ==
  [kind |-> "Propagator", handle |-> 0, premises |-> <<>>, propagated |-> propagated,
   tag |-> tag, label |-> label]

name_to_inference_label(name) ==
  IF name \in {"LinearLeq", "LinearGeq"} THEN "linear" ELSE "unsupported"

\* The edge of a propagation with the given reason reference, or the panic
\* of building it: the stored conjunction of a one-term linear propagator
\* is empty unless it is reified, and then it holds the reification
\* literal.
ReasonPanic(s, reason) ==
  IF name_to_inference_label(s.cp_propagators[s.reason_store[reason].propagator].kind)
       = "unsupported"
    THEN "propagator not supported in the proof processor"
  ELSE IF s.reason_store[reason].reason # {}
    THEN "Literals are not propagated in this course"
  ELSE ""

ReasonEdge(s, reason, propagated) ==
  PropagatorEdge(s.reason_store[reason].propagator,
                 name_to_inference_label(
                   s.cp_propagators[s.reason_store[reason].propagator].kind),
                 propagated)

WithUnitEdge(e, literal, reasons) ==
  IF literal \in DOMAIN e.rp_unit_clauses
    THEN Append(reasons, ClauseEdge(e.rp_unit_clauses[literal]))
  ELSE reasons

WithAllocatedEdge(e, reference, reasons) ==
  IF reference \in DOMAIN e.rp_allocated_clauses
    THEN Append(reasons, ClauseEdge(e.rp_allocated_clauses[reference]))
  ELSE reasons

\* The literals of a reason clause but the propagated one, negated.
NegatedOthers(clause, propagated) ==
  Negated(SelectSeq(clause, LAMBDA l : l # propagated))

\* The loop of get_conflict_reasons: the queue is a stack of literals
\* still to explain.
RECURSIVE ExplainQueue(_, _, _, _)
ExplainReference(e, to_explain, reference, rest, seen, reasons) ==
  CASE reference.kind = "null" -> ExplainQueue(e, rest, seen, reasons)
    [] reference.kind = "clause" ->
         ExplainQueue(e, rest \o NegatedOthers(e.solver.clauses[reference.ref], to_explain),
                      seen, WithAllocatedEdge(e, reference.ref, reasons))
    [] reference.kind = "reason_ref" ->
         IF ReasonPanic(e.solver, reference.ref) # ""
           THEN [reasons |-> reasons, panic |-> ReasonPanic(e.solver, reference.ref)]
         ELSE ExplainQueue(e, rest, seen,
                           Append(reasons, ReasonEdge(e.solver, reference.ref, to_explain)))
    [] OTHER -> [reasons |-> reasons,
                 panic |-> "the reference is either a propagation or a clause"]

ExplainLiteral(e, to_explain, rest, seen, reasons) ==
  IF to_explain \in seen THEN ExplainQueue(e, rest, seen, reasons)
  ELSE IF ~is_literal_assigned_true(e.solver.assignments_propositional, to_explain)
    THEN [reasons |-> reasons, panic |-> "explained literal is not true"]
  ELSE ExplainReference(
         e, to_explain,
         TrailEntryOf(e.solver.assignments_propositional, to_explain).reason,
         rest, seen \cup {to_explain}, WithUnitEdge(e, to_explain, reasons))

ExplainQueue(e, queue, seen, reasons) ==
  IF queue = <<>> THEN [reasons |-> reasons, panic |-> ""]
  ELSE ExplainLiteral(e, queue[Len(queue)], SubSeq(queue, 1, Len(queue) - 1),
                      seen, reasons)

\* The clause the clausal propagator reported as falsified.
FalsifiedClauses(s) ==
  {j \in 1 .. Len(s.clauses) :
     Len(s.clauses[j]) > 0
     /\ ClauseStatus(s.assignments_propositional, s.clauses[j]) = "conflict"}

\* initialise_explain_queue: get_conflict_info panics unless the state is
\* Conflict.  A Propagation conflict holds the falsified clause, or else
\* the reason of the integer trail entry whose literal was already false.
\* The propagators of this model report no Explanation.
ExplainConflict(e, s) ==
  IF ~conflicting(s.state)
    THEN [reasons |-> <<>>,
          panic |-> "Cannot extract conflict clause if solver is not in a clausal conflict."]
  ELSE IF s.state.conflict_info = "Explanation"
    THEN [reasons |-> <<>>, panic |-> "Literals are not propagated in this course"]
  ELSE IF FalsifiedClauses(s) # {}
    THEN ExplainQueue(e, Negated(s.clauses[SetMin(FalsifiedClauses(s))]), {},
                      WithAllocatedEdge(e, SetMin(FalsifiedClauses(s)), <<>>))
  ELSE IF ReasonPanic(s, s.assignments_integer.trail[s.cp_trail_synced_position].reason) # ""
    THEN [reasons |-> <<>>,
          panic |-> ReasonPanic(
                      s, s.assignments_integer.trail[s.cp_trail_synced_position].reason)]
  ELSE [reasons |->
          <<ReasonEdge(s, s.assignments_integer.trail[s.cp_trail_synced_position].reason,
                       get_literal(
                         s.assignments_integer.trail[s.cp_trail_synced_position].predicate))>>,
        panic |-> ""]

get_conflict_reasons(e) == ExplainConflict(e, e.solver)

\* The Err of enqueue_and_propagate, or the panic of computing it.
Explained(e, x) ==
  [e |-> IF x.panic # "" THEN [e EXCEPT !.solver = Panic(@, x.panic)] ELSE e,
   ok |-> FALSE, reasons |-> x.reasons]

EnqueuedAndPropagated(e) ==
  IF e.solver.panic # "" THEN [e |-> e, ok |-> FALSE, reasons |-> <<>>]
  ELSE IF is_conflicting(e.solver) THEN Explained(e, get_conflict_reasons(e))
  ELSE [e |-> e, ok |-> TRUE, reasons |-> <<>>]

AssumptionEnqueuedInEngine(e, r) ==
  IF ~r.success THEN Explained([e EXCEPT !.solver = r.s],
                               get_conflict_reasons([e EXCEPT !.solver = r.s]))
  ELSE EnqueuedAndPropagated([e EXCEPT !.solver = propagate_enqueued(r.s)])

enqueue_and_propagate(e, literal) ==
  AssumptionEnqueuedInEngine(e, enqueue_assumption_literal(e.solver, literal))

DeclaredSolving(s) == IF s.panic # "" THEN s ELSE declare_solving(s)

\* A variant that stays at the level it is at.
backtrack_one_level_staying(e) == [e EXCEPT !.solver = DeclaredSolving(@)]

backtrack_one_level(e) ==
  [e EXCEPT !.solver =
     IF get_decision_level(@) = 0 THEN Panic(@, "attempt to subtract with overflow")
     ELSE DeclaredSolving(backtrack(@, get_decision_level(@) - 1))]

\* add_rp_clause: the literals that are assigned are dropped; a clause of
\* one literal opens a decision level and is propagated, a longer one is
\* stored and watched.  handle is the new handle; result is Ok or Err.
FilteredClause(s, clause) ==
  SelectSeq(clause, LAMBDA l : is_literal_unassigned(s.assignments_propositional, l))

UnitAdded(r, handle) ==
  [e |-> r.e, result |-> IF r.ok THEN "Ok" ELSE "Err", handle |-> handle,
   reasons |-> r.reasons]

AddUnitRpClause(e, literal, input_clause) ==
  UnitAdded(
    enqueue_and_propagate(
      [e EXCEPT !.rp_clauses = Append(@, [clause |-> Unit(literal), input |-> input_clause]),
                !.rp_unit_clauses = MapInsert(@, literal, Len(e.rp_clauses) + 1),
                !.solver = declare_new_decision_level(@)],
      literal),
    Len(e.rp_clauses) + 1)

AddAllocatedRpClause(e, filtered_clause, input_clause) ==
  [e |-> [e EXCEPT !.solver = add_allocated_deletable_clause(@, filtered_clause),
                   !.rp_allocated_clauses =
                      MapInsert(@, Len(e.solver.clauses) + 1, Len(e.rp_clauses) + 1),
                   !.rp_clauses =
                      Append(@, [clause |-> ClauseRef(Len(e.solver.clauses) + 1),
                                 input |-> input_clause])],
   result |-> "Ok", handle |-> Len(e.rp_clauses) + 1, reasons |-> <<>>]

add_rp_clause(e, clause) ==
  IF FilteredClause(e.solver, clause) = <<>>
    THEN [e |-> [e EXCEPT !.solver = Panic(@, "cannot add the empty clause")],
          result |-> "Err", handle |-> 0, reasons |-> <<>>]
  ELSE IF Len(FilteredClause(e.solver, clause)) = 1
    THEN AddUnitRpClause(e, FilteredClause(e.solver, clause)[1], clause)
  ELSE AddAllocatedRpClause(e, FilteredClause(e.solver, clause), clause)

\* remove_last_rp_clause: None when no clause is left; else the clause is
\* taken back and the solver declared ready.
Removed(e, input_clause) ==
  IF e.solver.panic # "" THEN [e |-> e, result |-> "None", clause |-> <<>>]
  ELSE [e |-> [e EXCEPT !.solver = declare_ready(@)],
        result |-> "Some", clause |-> input_clause]

RemoveRpClause(e, popped, last_rp_clause) ==
  IF last_rp_clause.clause.kind = "Unit"
    THEN Removed([backtrack_one_level(popped) EXCEPT
                    !.rp_unit_clauses = MapRemove(@, last_rp_clause.clause.literal)],
                 last_rp_clause.input)
  ELSE IF last_rp_clause.clause.reference \notin DOMAIN e.rp_allocated_clauses
    THEN Removed([popped EXCEPT
                    !.solver = Panic(@, "the reference should be for an rp clause")],
                 last_rp_clause.input)
  ELSE Removed([popped EXCEPT
                  !.solver = delete_allocated_clause(@, last_rp_clause.clause.reference),
                  !.rp_allocated_clauses = MapRemove(@, last_rp_clause.clause.reference)],
               last_rp_clause.input)

\* A variant that takes a unit clause back without backtracking.
remove_last_rp_clause_keeping_the_level(e) ==
  IF e.rp_clauses = <<>> THEN [e |-> e, result |-> "None", clause |-> <<>>]
  ELSE IF e.rp_clauses[Len(e.rp_clauses)].clause.kind = "Unit"
    THEN Removed([e EXCEPT
                    !.rp_clauses = SubSeq(@, 1, Len(@) - 1),
                    !.rp_unit_clauses =
                       MapRemove(@, e.rp_clauses[Len(e.rp_clauses)].clause.literal)],
                 e.rp_clauses[Len(e.rp_clauses)].input)
  ELSE RemoveRpClause(e, [e EXCEPT !.rp_clauses = SubSeq(@, 1, Len(@) - 1)],
                      e.rp_clauses[Len(e.rp_clauses)])

remove_last_rp_clause(e) ==
  IF e.rp_clauses = <<>> THEN [e |-> e, result |-> "None", clause |-> <<>>]
  ELSE RemoveRpClause(e, [e EXCEPT !.rp_clauses = SubSeq(@, 1, Len(@) - 1)],
                      e.rp_clauses[Len(e.rp_clauses)])

\* propagate_under_assumptions: a new decision level, every assumption
\* enqueued and propagated in turn, and one level backtracked at the first
\* conflict or at the end.
RECURSIVE PropagateAssumptions(_, _, _)
AssumptionPropagated(r, assumptions, i) ==
  IF r.e.solver.panic # "" THEN [e |-> r.e, result |-> "Err", reasons |-> <<>>]
  ELSE IF ~r.ok
    THEN [e |-> backtrack_one_level(r.e), result |-> "Err", reasons |-> r.reasons]
  ELSE PropagateAssumptions(r.e, assumptions, i + 1)

PropagateAssumptions(e, assumptions, i) ==
  IF i > Len(assumptions)
    THEN [e |-> backtrack_one_level(e), result |-> "Ok", reasons |-> <<>>]
  ELSE AssumptionPropagated(enqueue_and_propagate(e, assumptions[i]), assumptions, i)

propagate_under_assumptions(e, assumptions) ==
  IF is_conflicting(e.solver)
    THEN [e |-> [e EXCEPT !.solver = Panic(@, "assertion failed: !is_conflicting()")],
          result |-> "Err", reasons |-> <<>>]
  ELSE PropagateAssumptions([e EXCEPT !.solver = declare_new_decision_level(@)],
                            assumptions, 1)

\* --------------------------------------------------------------- Processor
\* Model::into_solver: the constraints are posted in order up to the first
\* one that fails, and the outcome is dropped.
RECURSIVE LowerFrom(_, _, _)
LowerPosted(r, constraints, i) ==
  IF r.result # "Ok" \/ r.s.panic # "" THEN r.s ELSE LowerFrom(r.s, constraints, i + 1)

LowerFrom(s, constraints, i) ==
  IF i > Len(constraints) THEN s ELSE LowerPosted(Post(s, constraints[i]), constraints, i)

into_solver(constraints) == Fresh(LowerFrom(InitialSolver, constraints, 1))

\* Processor::from
ProcessorFrom(constraints) ==
  [engine |-> RpEngineNew(into_solver(constraints)), handles |-> <<>>]

\* Propagation::Nogood and Propagation::Propagator
MapReason(p, reason) ==
  IF reason.kind = "Clause"
    THEN [kind |-> "Nogood", id |-> p.handles[reason.handle], premises |-> <<>>,
          propagated |-> 0, tag |-> 0, label |-> ""]
  ELSE [kind |-> "Propagator", id |-> 0, premises |-> reason.premises,
        propagated |-> reason.propagated, tag |-> reason.tag, label |-> reason.label]

\* map_reasons: the step id of a clause edge is looked up and unwrapped.
map_reasons(p, reasons) ==
  IF \E i \in 1 .. Len(reasons) :
        reasons[i].kind = "Clause" /\ reasons[i].handle \notin DOMAIN p.handles
    THEN [propagations |-> <<>>, panic |-> "called Option::unwrap() on a None value"]
  ELSE [propagations |-> [i \in 1 .. Len(reasons) |-> MapReason(p, reasons[i])],
        panic |-> ""]

Mapped(p, m) ==
  [p |-> IF m.panic # "" THEN [p EXCEPT !.engine.solver = Panic(@, m.panic)] ELSE p,
   result |-> "Err", reasons |-> m.propagations]

\* add_removable_nogood: the clause of a nogood is the negation of its
\* literals; the conflicting half of the error of add_rp_clause is mapped
\* before the new handle is entered in handles.
NogoodAdded(p, nogood, r) ==
  IF r.e.solver.panic # ""
    THEN [p |-> [p EXCEPT !.engine = r.e], result |-> "Err", reasons |-> <<>>]
  ELSE IF r.result = "Err" THEN Mapped([p EXCEPT !.engine = r.e], map_reasons(p, r.reasons))
  ELSE [p |-> [p EXCEPT !.engine = r.e,
                        !.handles = MapInsert(@, r.handle, nogood.id)],
        result |-> "Ok", reasons |-> <<>>]

add_removable_nogood(p, nogood) ==
  NogoodAdded(p, nogood, add_rp_clause(p.engine, Negated(nogood.literals)))

NogoodRemoved(p, r) ==
  [p |-> [p EXCEPT !.engine = r.e], result |-> r.result, clause |-> Negated(r.clause)]

remove_top_nogood(p) == NogoodRemoved(p, remove_last_rp_clause(p.engine))

NogoodsPropagated(p, r) ==
  IF r.e.solver.panic # "" \/ r.result = "Ok"
    THEN [p |-> [p EXCEPT !.engine = r.e], result |-> r.result, reasons |-> <<>>]
  ELSE Mapped([p EXCEPT !.engine = r.e], map_reasons(p, r.reasons))

processor_propagate_under_assumptions(p, assumptions) ==
  NogoodsPropagated(p, propagate_under_assumptions(p.engine, assumptions))

\* trim: todo!()
trim(p, scaffold) ==
  [p |-> [p EXCEPT !.engine.solver = Panic(@, "not yet implemented")],
   nogoods |-> <<>>, conclusion |-> ""]

\* ------------------------------------------- the proof processor at work
\* The solvers a reverse-propagation engine is built on: an empty one, the
\* four clauses over two literals of the tests of the engine, and x <= 1.
\* A Processor is built from a Model, which holds no clauses.
ProcessorModelMenu ==
  {<<>>,
   <<Clause(<<B1, B2>>), Clause(<<B1, Neg(B2)>>),
     Clause(<<Neg(B1), B2>>), Clause(<<Neg(B1), Neg(B2)>>)>>,
   <<Constraint(Propagator("LinearLeq", 1, 0, 0))>>}

\* The clauses of add_rp_clause; a nogood is the negation of one of them.
RpClauses ==
  <<<<B1>>, <<Neg(B1)>>, <<B2>>, <<Neg(B1), B2>>, <<Neg(B1), Neg(B2)>>,
    <<GeVar(1)>>, <<Neg(EqVar(1)), B1>>, <<Neg(EqVar(1)), Neg(B1)>>>>

RpClauseMenu == {RpClauses[i] : i \in 1 .. Len(RpClauses)}

RpAssumptionMenu == {<<>>, <<B1>>, <<Neg(B1)>>, <<B1, B2>>, <<GeVar(1)>>}

\* The step id the client gives a nogood: every nogood has its own.
StepIdOf(clause) == 10 + (CHOOSE i \in 1 .. Len(RpClauses) : RpClauses[i] = clause)

FreshProcessor(p) == [p EXCEPT !.engine.solver = Fresh(@)]

\* The last call on the engine or the processor: its name, argument and
\* result (Ok, Err, Some, None, or Panic), the edges or the clause it
\* returned, the state, level, clauses and top clause it started from, and
\* whether it left level and assignments as they were.
ProcessorOp(op, argument, r, returned, before, after) ==
  [op |-> op, argument |-> argument,
   result |-> IF after.engine.solver.panic # "" THEN "Panic" ELSE r.result,
   returned |-> IF after.engine.solver.panic # "" THEN <<>> ELSE returned,
   panic |-> after.engine.solver.panic,
   state_before |-> before.engine.solver.state.kind,
   level_before |-> get_decision_level(before.engine.solver),
   clauses_before |-> [i \in 1 .. Len(before.engine.rp_clauses) |->
                         before.engine.rp_clauses[i].input],
   restored |-> /\ RestorableView(after.engine.solver) = RestorableView(before.engine.solver)
                /\ get_decision_level(after.engine.solver)
                     = get_decision_level(before.engine.solver),
   satisfied_before |->
     /\ op = "add_rp_clause"
     /\ \E i \in 1 .. Len(argument) :
           is_literal_assigned_true(before.engine.solver.assignments_propositional,
                                    argument[i]),
   assignment_kept |->
     after.engine.solver.assignments_propositional.trail
       = before.engine.solver.assignments_propositional.trail]

ProcessorInit ==
  /\ model \in ProcessorModelMenu
  /\ client \in {"RpEngine", "Processor"}
  /\ client = "Processor" => \A i \in 1 .. Len(model) : model[i].kind = "propagator"
  /\ processor = ProcessorFrom(model)
  /\ pc = "idle"
  /\ last = ProcessorOp("new", <<>>, [result |-> "Ok"], <<>>,
                        ProcessorFrom(model), ProcessorFrom(model))
  /\ solver = InitialSolver
  /\ lowered = Len(model)
  /\ flag = "None"
  /\ stop = FALSE
  /\ resolver = "NoLearning"
  /\ failed = FALSE
  /\ adds = 0
  /\ iters = 0
  /\ checking = NoChecking
  /\ view = NoView

Called(op, argument, r, p2, returned) ==
  /\ processor' = p2
  /\ pc' = PcAfter(p2.engine.solver, "idle")
  /\ last' = ProcessorOp(op, argument, r, returned, processor, p2)
  /\ UNCHANGED <<solver, model, lowered, flag, stop, resolver, failed, adds, iters,
                 client, checking, view>>

EngineAdded(clause, r) ==
  Called("add_rp_clause", clause, r, [processor EXCEPT !.engine = r.e], r.reasons)

\* The engine is not to be in a conflicting state when a clause is added.
AddRpClause(clause) ==
  /\ pc = "idle"
  /\ client = "RpEngine"
  /\ Len(processor.engine.rp_clauses) < MaxNogoods
  /\ ~is_conflicting(processor.engine.solver)
  /\ EngineAdded(clause, add_rp_clause(FreshProcessor(processor).engine, clause))

EngineRemoved(r) ==
  Called("remove_last_rp_clause", <<>>, r, [processor EXCEPT !.engine = r.e], r.clause)

RemoveLastRpClause ==
  /\ pc = "idle"
  /\ client = "RpEngine"
  /\ EngineRemoved(remove_last_rp_clause(FreshProcessor(processor).engine))

EnginePropagated(assumptions, r) ==
  Called("propagate_under_assumptions", assumptions, r,
         [processor EXCEPT !.engine = r.e], r.reasons)

PropagateUnderAssumptions(assumptions) ==
  /\ pc = "idle"
  /\ client = "RpEngine"
  /\ EnginePropagated(
       assumptions,
       propagate_under_assumptions(FreshProcessor(processor).engine, assumptions))

ProcessorAdded(nogood, r) ==
  Called("add_removable_nogood", nogood.literals, r, r.p, r.reasons)

AddRemovableNogood(clause) ==
  /\ pc = "idle"
  /\ client = "Processor"
  /\ Len(processor.engine.rp_clauses) < MaxNogoods
  /\ ~is_conflicting(processor.engine.solver)
  /\ ProcessorAdded(
       [id |-> StepIdOf(clause), literals |-> Negated(clause)],
       add_removable_nogood(FreshProcessor(processor),
                            [id |-> StepIdOf(clause), literals |-> Negated(clause)]))

ProcessorRemoved(r) == Called("remove_top_nogood", <<>>, r, r.p, r.clause)

RemoveTopNogood ==
  /\ pc = "idle"
  /\ client = "Processor"
  /\ ProcessorRemoved(remove_top_nogood(FreshProcessor(processor)))

ProcessorPropagated(assumptions, r) ==
  Called("processor_propagate_under_assumptions", assumptions, r, r.p, r.reasons)

ProcessorPropagateUnderAssumptions(assumptions) ==
  /\ pc = "idle"
  /\ client = "Processor"
  /\ ProcessorPropagated(
       assumptions,
       processor_propagate_under_assumptions(FreshProcessor(processor), assumptions))

\* The nogoods of a scaffold, in the order of the proof.
ScaffoldMenu == {<<<<B1>>>>, <<<<B1, B2>>, <<B1, Neg(B2)>>, <<Neg(B1)>>>>}

Trimmed(scaffold, r) == Called("trim", scaffold, [result |-> "Ok"], r.p, r.nogoods)

\* process_proof starts with trim over the scaffold.
Trim(scaffold) ==
  /\ pc = "idle"
  /\ client = "Processor"
  /\ Trimmed(scaffold, trim(FreshProcessor(processor), scaffold))

ProcessorNext ==
  \/ \E c \in RpClauseMenu : AddRpClause(c)
  \/ RemoveLastRpClause
  \/ \E a \in RpAssumptionMenu : PropagateUnderAssumptions(a)
  \/ \E c \in RpClauseMenu : AddRemovableNogood(c)
  \/ RemoveTopNogood
  \/ \E a \in RpAssumptionMenu : ProcessorPropagateUnderAssumptions(a)
  \/ \E scaffold \in ScaffoldMenu : Trim(scaffold)

ProcessorSpec == ProcessorInit /\ [][ProcessorNext]_vars

\* ------------------------------------------------------ the proof checker
\* model::IntVariable: the view scale * variable + offset.
IntVariable(id, scale, offset) == [id |-> id, scale |-> scale, offset |-> offset]

scaled(variable, scale) ==
  [variable EXCEPT !.scale = @ * scale, !.offset = @ * scale]

LinearLessEqual(terms, rhs) == [kind |-> "LinearLessEqual", terms |-> terms, rhs |-> rhs]
LinearEqual(terms, rhs) == [kind |-> "LinearEqual", terms |-> terms, rhs |-> rhs]
Maximum(terms, rhs) == [kind |-> "Maximum", terms |-> terms, rhs |-> rhs]

\* The model a proof is checked against: x and y over 0 .. XMax with
\* x - y <= 0, x + y = 2 and a maximum constraint.
CheckerVariables == {"x", "y"}

CheckerModel ==
  <<LinearLessEqual(<<IntVariable("x", 1, 0), IntVariable("y", -1, 0)>>, 0),
    LinearEqual(<<IntVariable("x", 1, 0), IntVariable("y", 1, 0)>>, 2),
    Maximum(<<IntVariable("x", 1, 0)>>, IntVariable("y", 1, 0))>>

\* IntAtomicConstraint, with the comparison named as the predicate type;
\* BoolAtomic is an AtomicConstraint::Bool. The value of an atomic is an
\* i64: wide marks a value far outside the i32 range (its negation is
\* outside the range as well), which the field value does not hold.
Atomic(name, comparison, value) ==
  [name |-> name, comparison |-> comparison, value |-> value, wide |-> FALSE]

WideAtomic(name, comparison) ==
  [name |-> name, comparison |-> comparison, value |-> 0, wide |-> TRUE]

BoolAtomic == Atomic("b", "bool", 0)

negate(atomic) ==
  CASE atomic.comparison = "ge" -> [atomic EXCEPT !.comparison = "le", !.value = @ - 1]
    [] atomic.comparison = "le" -> [atomic EXCEPT !.comparison = "ge", !.value = @ + 1]
    [] atomic.comparison = "eq" -> [atomic EXCEPT !.comparison = "ne"]
    [] OTHER                    -> [atomic EXCEPT !.comparison = "eq"]

\* The outcome of a check: Ok, an error with its message and the step id
\* it names (0: none), or a panic.
CheckOk == [result |-> "Ok", message |-> "", step |-> 0, returned |-> <<>>]
CheckErr(message) == [result |-> "Err", message |-> message, step |-> 0, returned |-> <<>>]
CheckPanic(message) ==
  [result |-> "Panic", message |-> message, step |-> 0, returned |-> <<>>]

\* Result::with_context(format!(".. step {id}"))
with_context(r, id) == IF r.result = "Err" THEN [r EXCEPT !.step = id] ELSE r

\* to_int_atomic fails on a Boolean atomic.
AllIntAtomics(atomics) ==
  \A i \in 1 .. Len(atomics) : atomics[i].comparison # "bool"

\* CheckingState::from
CheckingStateFrom(constraints) ==
  [model |-> constraints,
   assignment |-> [n \in CheckerVariables |-> InitialAssignmentsInteger],
   nogoods |-> <<>>, inferences |-> <<>>]

\* as_context: the assignment at the next decision level.
as_context(state) ==
  [n \in DOMAIN state.assignment |->
     [state.assignment[n] EXCEPT !.decision_level = @ + 1]]

\* A variant of drop that leaves the trail as it is.
drop_keeping_the_trail(assignment) ==
  [n \in DOMAIN assignment |-> [assignment[n] EXCEPT !.decision_level = 0]]

\* Drop for CheckingContext: assignment.synchronise(0)
drop(assignment) ==
  [n \in DOMAIN assignment |-> synchronise_integer(assignment[n], 0)]

\* to_integer_predicate: "Err" for an unknown variable, "Panic" where the
\* value does not fit an i32 (try_into().unwrap()), else "Ok".
to_integer_predicate(assignment, atomic) ==
  IF atomic.name \notin DOMAIN assignment THEN "Err"
  ELSE IF atomic.wide THEN "Panic"
  ELSE "Ok"

\* CheckingContext::apply
Applied(assignment, name, r) ==
  [a |-> [assignment EXCEPT ![name] = r.a], ok |-> r.ok, panic |-> FALSE]

ContextApply(assignment, atomic) ==
  IF to_integer_predicate(assignment, atomic) # "Ok"
    THEN [a |-> assignment, ok |-> FALSE,
          panic |-> to_integer_predicate(assignment, atomic) = "Panic"]
  ELSE Applied(assignment, atomic.name,
               apply_integer_predicate(assignment[atomic.name],
                                       Pred(atomic.comparison, atomic.value), 0))

RECURSIVE ApplyAll(_, _, _)
ApplyNext(r, atomics, i) == IF ~r.ok THEN r ELSE ApplyAll(r.a, atomics, i + 1)

ApplyAll(assignment, atomics, i) ==
  IF i > Len(atomics) THEN [a |-> assignment, ok |-> TRUE, panic |-> FALSE]
  ELSE ApplyNext(ContextApply(assignment, atomics[i]), atomics, i)

\* The predicate of an atomic that to_integer_predicate accepts.
AtomicPredicate(atomic) == Pred(atomic.comparison, atomic.value)

AtomicHolds(assignment, atomic) ==
  does_integer_predicate_hold(assignment[atomic.name], AtomicPredicate(atomic))

\* StepPropagation
Propagation(returned) == [CheckOk EXCEPT !.returned = returned]

ExpectPanic == CheckPanic("previous stages would have failed if this was not possible")

\* propagate_inference: all() stops at the first premise that does not hold.
RECURSIVE propagate_inference(_, _, _, _)
propagate_inference(assignment, premises, conclusion, i) ==
  IF i > Len(premises)
    THEN Propagation(IF conclusion = <<>> THEN <<"Conflict">> ELSE <<"Atomic", conclusion[1]>>)
  ELSE IF to_integer_predicate(assignment, premises[i]) # "Ok" THEN ExpectPanic
  ELSE IF ~AtomicHolds(assignment, premises[i])
    THEN CheckErr("Cannot propagate because not all premises are true.")
  ELSE propagate_inference(assignment, premises, conclusion, i + 1)

\* propagate_nogood: the atomics that do not hold, in order.
NotHolding(assignment, nogood) ==
  SelectSeq(nogood, LAMBDA atomic : ~AtomicHolds(assignment, atomic))

NogoodPropagated(nogood, unassigned) ==
  IF unassigned = <<>> THEN Propagation(<<"Conflict">>)
  ELSE IF Len(unassigned) # 1 THEN CheckErr("Nogood does not propagate anything.")
  ELSE Propagation(<<"Atomic", negate(unassigned[1])>>)

propagate_nogood(assignment, nogood) ==
  IF \E i \in 1 .. Len(nogood) : to_integer_predicate(assignment, nogood[i]) # "Ok"
    THEN ExpectPanic
  ELSE NogoodPropagated(nogood, NotHolding(assignment, nogood))

\* CheckingContext::propagate_step
propagate_step(assignment, state, step_id) ==
  IF step_id \in DOMAIN state.inferences
    THEN propagate_inference(assignment, state.inferences[step_id].premises,
                             state.inferences[step_id].conclusion, 1)
  ELSE IF step_id \in DOMAIN state.nogoods
    THEN propagate_nogood(assignment, state.nogoods[step_id])
  ELSE CheckErr("No step with id exists")

\* CheckingContext::lower_bound: the lower bound of the affine view.
lower_bound(assignment, variable) ==
  IF variable.scale < 0
    THEN variable.scale * assignment[variable.id].ub + variable.offset
  ELSE variable.scale * assignment[variable.id].lb + variable.offset

RECURSIVE SumOfLowerBounds(_, _, _)
SumOfLowerBounds(terms, assignment, i) ==
  IF i > Len(terms) THEN 0
  ELSE lower_bound(assignment, terms[i]) + SumOfLowerBounds(terms, assignment, i + 1)

\* A variant that also accepts when the sum equals the right-hand side.
linear_verify_accepting_equality(terms, rhs, assignment) ==
  IF SumOfLowerBounds(terms, assignment, 1) >= rhs THEN CheckOk
  ELSE CheckErr("Right-hand side is not exceeded by left-hand side.")

\* inferences::linear::verify
linear_verify(terms, rhs, assignment) ==
  IF SumOfLowerBounds(terms, assignment, 1) > rhs THEN CheckOk
  ELSE CheckErr("Right-hand side is not exceeded by left-hand side.")

verify_linear_equal(terms, rhs, assignment) ==
  IF linear_verify(terms, rhs, assignment).result = "Ok" THEN CheckOk
  ELSE linear_verify([i \in 1 .. Len(terms) |-> scaled(terms[i], -1)], -rhs, assignment)

\* The dispatch of inferences::verify on the label; the checkers of the
\* other constraints are todo!().
InferenceDispatched(constraint, label, assignment) ==
  CASE label = "linear" ->
         IF constraint.kind = "LinearEqual"
           THEN verify_linear_equal(constraint.terms, constraint.rhs, assignment)
         ELSE IF constraint.kind = "LinearLessEqual"
           THEN linear_verify(constraint.terms, constraint.rhs, assignment)
         ELSE CheckErr("Linear reasoning is only done in linear constraints.")
    [] label = "maximum" ->
         IF constraint.kind = "Maximum" THEN CheckPanic("not yet implemented")
         ELSE CheckErr("Maximum reasoning is only done in the maximum constraint.")
    [] OTHER -> CheckErr("Unknown inference label")

\* The negation of the propagated atomic, when there is one.
NegatedConclusion(propagated) ==
  [i \in 1 .. Len(propagated) |-> negate(propagated[i])]

ConclusionNegated(r, propagated, constraint, label) ==
  IF r.panic THEN CheckPanic("called Result::unwrap() on an Err value")
  ELSE IF ~r.ok
    THEN CheckErr("The negation of the conclusion should not be mutually exclusive.")
  ELSE InferenceDispatched(constraint, label, r.a)

PremisesApplied(r, propagated, constraint, label) ==
  IF r.panic THEN CheckPanic("called Result::unwrap() on an Err value")
  ELSE IF ~r.ok
    THEN CheckErr("The premises should not contain mutually exclusive atomic constraints.")
  ELSE ConclusionNegated(ApplyAll(r.a, NegatedConclusion(propagated), 1),
                         propagated, constraint, label)

\* inferences::verify
inferences_verify(premises, propagated, constraint, label, assignment) ==
  PremisesApplied(ApplyAll(assignment, premises, 1), propagated, constraint, label)

\* The assignment of the context when inferences::verify returns.
ContextAfterPremises(r, propagated) ==
  IF ~r.ok THEN r.a ELSE ApplyAll(r.a, NegatedConclusion(propagated), 1).a

ContextAfterInference(inference, state) ==
  IF \/ inference.hint_constraint_id \notin DOMAIN state.model
     \/ inference.hint_label = ""
     \/ ~AllIntAtomics(inference.premises \o inference.propagated)
    THEN as_context(state)
  ELSE ContextAfterPremises(ApplyAll(as_context(state), inference.premises, 1),
                            inference.propagated)

\* The checking state once the context a step was verified in is dropped.
Dropped(state, assignment) == [state EXCEPT !.assignment = drop(assignment)]

\* verify_inference: hint_constraint_id 0 and hint_label "" stand for None;
\* propagated is a sequence of at most one atomic.
verify_inference(inference, state) ==
  IF inference.hint_constraint_id = 0
    THEN with_context(CheckErr("Missing constraint tag for step"), inference.id)
  ELSE IF inference.hint_constraint_id \notin DOMAIN state.model
    THEN CheckErr("No constraint with id in model")
  ELSE IF inference.hint_label = ""
    THEN with_context(CheckErr("Missing label for step"), inference.id)
  ELSE IF ~AllIntAtomics(inference.premises \o inference.propagated)
    THEN CheckErr("Only integer atomic constraints are supported.")
  ELSE with_context(
         inferences_verify(inference.premises, inference.propagated,
                           state.model[inference.hint_constraint_id],
                           inference.hint_label, as_context(state)),
         inference.id)

\* combine::verify: todo!()
combine_verify(premises, step_ids, assignment) == CheckPanic("not yet implemented")

\* verify_combine: has_hints is FALSE when the step carries no hints.
verify_combine(nogood, state) ==
  IF ~nogood.has_hints THEN CheckErr("The checker requires combine steps to have hints.")
  ELSE IF ~AllIntAtomics(nogood.literals)
    THEN CheckErr("Only integer atomic constraints are supported.")
  ELSE with_context(combine_verify(nogood.literals, nogood.hints, as_context(state)),
                    nogood.id)

\* conclusion::verify_unsat and conclusion::verify_optimal: todo!()
verify_unsat(state) == CheckPanic("not yet implemented")
verify_optimal(state, bound) == CheckPanic("not yet implemented")

\* verify_conclusion: bound is a sequence, empty for Unsatisfiable.
verify_conclusion(bound, state) ==
  IF bound = <<>> THEN verify_unsat(state)
  ELSE IF ~AllIntAtomics(bound) THEN CheckErr("Only integer atomic constraints are supported.")
  ELSE verify_optimal(state, bound[1])

\* A variant that looks for the step id among the nogoods only.
record_nogood_checking_nogoods_only(state, step_id, nogood) ==
  [state |-> [state EXCEPT !.nogoods = MapInsert(@, step_id, nogood)],
   r |-> IF step_id \in DOMAIN state.nogoods
           THEN CheckErr("Step id is recorded multiple times.")
         ELSE CheckOk]

\* CheckingState::record_nogood: the map is written before an id that is
\* already among the nogoods is reported.
record_nogood(state, step_id, nogood) ==
  IF step_id \in DOMAIN state.inferences
    THEN [state |-> state, r |-> CheckErr("Step id is recorded multiple times.")]
  ELSE [state |-> [state EXCEPT !.nogoods = MapInsert(@, step_id, nogood)],
        r |-> IF step_id \in DOMAIN state.nogoods
                THEN CheckErr("Step id is recorded multiple times.")
              ELSE CheckOk]

\* CheckingState::record_inference
record_inference(state, step_id, premises, conclusion) ==
  IF step_id \in DOMAIN state.nogoods
    THEN [state |-> state, r |-> CheckErr("Step id is recorded multiple times.")]
  ELSE [state |-> [state EXCEPT
                     !.inferences =
                        MapInsert(@, step_id,
                                  [premises |-> premises, conclusion |-> conclusion])],
        r |-> IF step_id \in DOMAIN state.inferences
                THEN CheckErr("Step id is recorded multiple times.")
              ELSE CheckOk]

\* --------------------------------------------- the proof checker at work
\* The step ids, atomics and steps of the proofs that are checked.
StepIds == {1, 2}

IntAtomicMenu ==
  <<Atomic("x", "ge", 1), Atomic("x", "le", 0), Atomic("x", "ne", 0),
    Atomic("y", "ge", 1), Atomic("y", "le", 1), Atomic("y", "eq", 2)>>

\* Atomics over a variable the model does not have, and with a value
\* outside the 32-bit range.
MalformedAtomics == {Atomic("z", "ge", 1), WideAtomic("x", "ge")}

\* The atomics applied through a context that is held open.
ApplyMenu ==
  {Atomic("x", "ge", 1), Atomic("x", "ne", 0), Atomic("y", "le", 1), Atomic("y", "eq", 2)}
  \cup MalformedAtomics

PremiseMenu ==
  {<<>>} \cup {<<IntAtomicMenu[i]>> : i \in DOMAIN IntAtomicMenu}
         \cup {<<IntAtomicMenu[p[1]], IntAtomicMenu[p[2]]>> :
                 p \in {q \in (DOMAIN IntAtomicMenu) \X (DOMAIN IntAtomicMenu) : q[1] < q[2]}}

PropagatedMenu ==
  {<<>>, <<Atomic("y", "ge", 1)>>, <<Atomic("y", "ge", 2)>>, <<Atomic("x", "le", 0)>>}

Inference(id, constraint_id, label, premises, propagated) ==
  [id |-> id, hint_constraint_id |-> constraint_id, hint_label |-> label,
   premises |-> premises, propagated |-> propagated]

\* Linear inferences over the two linear constraints, and steps that are
\* malformed in one way each.
InferenceMenu ==
  {Inference(1, c, "linear", p, q) :
     c \in {1, 2}, p \in PremiseMenu, q \in PropagatedMenu}
  \cup {Inference(1, c, l, <<Atomic("x", "ge", 1)>>, <<Atomic("y", "ge", 1)>>) :
          c \in 0 .. Len(CheckerModel) + 1, l \in {"", "linear", "maximum", "other"}}
  \cup {Inference(1, 1, "linear", <<a>>, <<>>) : a \in {BoolAtomic} \cup MalformedAtomics}
  \cup {Inference(1, 2, "linear", <<>>, <<a>>) : a \in MalformedAtomics}

Nogood(id, literals, has_hints, hints) ==
  [id |-> id, literals |-> literals, has_hints |-> has_hints, hints |-> hints]

NogoodMenu ==
  {Nogood(id, l, h, IF h THEN <<1>> ELSE <<>>) :
     id \in StepIds, l \in {<<>>, <<Atomic("x", "ge", 1)>>, <<BoolAtomic>>},
     h \in BOOLEAN}

ConclusionMenu == {<<>>, <<Atomic("x", "ge", 1)>>, <<BoolAtomic>>}

RecordMenu ==
  {<<>>, <<Atomic("x", "ge", 1), Atomic("y", "le", 1)>>, <<Atomic("z", "ge", 1)>>}

RecordedPremisesMenu == {<<Atomic("x", "ge", 1)>>, <<Atomic("z", "ge", 1)>>}

\* The domains of an assignment.
Domains(assignment) ==
  [n \in DOMAIN assignment |->
     [lb |-> assignment[n].lb, ub |-> assignment[n].ub, holes |-> assignment[n].holes]]

\* The last call on the checker: its name, the step it was given, its
\* outcome, whether the id of the step was recorded before the call, the
\* domains when the context the call works in was created, how many
\* contexts were opened in a row, how many apply calls the context saw and
\* whether they changed a domain.
CheckerOp(op, step, r, before) ==
  [op |-> op, step |-> step, result |-> r.result, message |-> r.message,
   names_step |-> r.step, returned |-> r.returned,
   recorded_before |-> step.id \in DOMAIN before.nogoods \cup DOMAIN before.inferences,
   domains_at_creation |-> Domains(before.assignment),
   contexts |-> 0, applied |-> 0, changed |-> FALSE]

CheckerInit ==
  /\ checking = CheckingStateFrom(CheckerModel)
  /\ view = NoView
  /\ pc = "idle"
  /\ last = CheckerOp("new", [id |-> 0], CheckOk, CheckingStateFrom(CheckerModel))
  /\ solver = InitialSolver
  /\ model = <<>>
  /\ lowered = 0
  /\ flag = "None"
  /\ stop = FALSE
  /\ resolver = "NoLearning"
  /\ failed = FALSE
  /\ adds = 0
  /\ iters = 0
  /\ processor = NoProcessor
  /\ client = "None"

Checked(op, step, r, state) ==
  /\ checking' = state
  /\ pc' = IF r.result = "Panic" THEN "panicked" ELSE "idle"
  /\ last' = CheckerOp(op, step, r, checking)
  /\ UNCHANGED <<solver, model, lowered, flag, stop, resolver, failed, adds, iters,
                 processor, client, view>>

Recorded(op, step, x) == Checked(op, step, x.r, x.state)

RecordNogood(id, nogood) ==
  /\ pc = "idle"
  /\ Recorded("record_nogood", [id |-> id, literals |-> nogood],
              record_nogood(checking, id, nogood))

RecordInference(id, premises) ==
  /\ pc = "idle"
  /\ Recorded("record_inference", [id |-> id, literals |-> premises],
              record_inference(checking, id, premises, <<Atomic("y", "ge", 1)>>))

VerifyInference(inference) ==
  /\ pc = "idle"
  /\ Checked("verify_inference", inference, verify_inference(inference, checking),
             Dropped(checking, ContextAfterInference(inference, checking)))

VerifyCombine(nogood) ==
  /\ pc = "idle"
  /\ Checked("verify_combine", nogood, verify_combine(nogood, checking),
             Dropped(checking, as_context(checking)))

VerifyConclusion(bound) ==
  /\ pc = "idle"
  /\ Checked("verify_conclusion", [id |-> 0, bound |-> bound],
             verify_conclusion(bound, checking), checking)

\* A client that holds a context open: as_context, then apply and
\* propagate_step in any order, then the drop of the context.
InContext(op, step, r, assignment, contexts, applied) ==
  /\ checking' = [checking EXCEPT !.assignment = assignment]
  /\ pc' = IF r.result = "Panic" THEN "panicked"
           ELSE IF op = "drop" THEN "idle" ELSE "context"
  /\ last' = [CheckerOp(op, step, r, checking) EXCEPT
                !.domains_at_creation =
                   IF op = "as_context" THEN @ ELSE last.domains_at_creation,
                !.contexts = contexts, !.applied = applied,
                !.changed = op # "as_context"
                            /\ (last.changed
                                \/ Domains(assignment) # last.domains_at_creation)]
  /\ UNCHANGED <<solver, model, lowered, flag, stop, resolver, failed, adds, iters,
                 processor, client, view>>

AsContext ==
  /\ pc = "idle"
  /\ last.op = "drop" => last.contexts < MaxContexts
  /\ InContext("as_context", [id |-> 0], CheckOk, as_context(checking),
               IF last.op = "drop" THEN last.contexts + 1 ELSE 1, 0)

ApplyResult(r) ==
  IF r.panic THEN CheckPanic("called Result::unwrap() on an Err value")
  ELSE IF ~r.ok THEN CheckErr("apply failed")
  ELSE CheckOk

ApplyIn(atomic, r) ==
  InContext("apply", [id |-> 0, atomic |-> atomic], ApplyResult(r), r.a,
            last.contexts, last.applied + 1)

Apply(atomic) ==
  /\ pc = "context"
  /\ last.applied < MaxApplies
  /\ ApplyIn(atomic, ContextApply(checking.assignment, atomic))

PropagateStep(step_id) ==
  /\ pc = "context"
  /\ InContext("propagate_step", [id |-> step_id],
               propagate_step(checking.assignment, checking, step_id),
               checking.assignment, last.contexts, last.applied)

Drop ==
  /\ pc = "context"
  /\ InContext("drop", [id |-> 0], CheckOk, drop(checking.assignment),
               last.contexts, last.applied)

CheckerNext ==
  \/ AsContext
  \/ \E atomic \in ApplyMenu : Apply(atomic)
  \/ \E step_id \in StepIds : PropagateStep(step_id)
  \/ Drop
  \/ \E id \in StepIds, nogood \in RecordMenu : RecordNogood(id, nogood)
  \/ \E id \in StepIds, premises \in RecordedPremisesMenu : RecordInference(id, premises)
  \/ \E inference \in InferenceMenu : VerifyInference(inference)
  \/ \E nogood \in NogoodMenu : VerifyCombine(nogood)
  \/ \E bound \in ConclusionMenu : VerifyConclusion(bound)

CheckerSpec == CheckerInit /\ [][CheckerNext]_vars


\* ------------------------------------------- the reified propagator at work
\* A reified propagator over x with the reification literal B1 is
\* initialised and propagated in a propagation context whose domains
\* change between the calls.
ReifiedMenu ==
  {Propagator(kind, rhs, 0, B1) : kind \in {"LinearLeq", "LinearGeq"}, rhs \in 0 .. XMax}
  \cup {GenericPropagator(propagation, consistency_check, init, B1) :
          propagation \in {<<>>, <<{GeLit(1)}>>},
          consistency_check \in {<<>>, <<{GeLit(1), EqLit(1)}>>},
          init \in {<<>>, <<{GeLit(0)}>>}}

\* The last call: the solver before it, the status the propagator
\* returned, and the number of propagate calls so far.
ReifiedOp(op, status, before, propagations) ==
  [op |-> op, status |-> status, before |-> before, propagations |-> propagations]

ReifiedInit ==
  /\ solver \in {[InitialSolver EXCEPT !.cp_propagators = <<q>>] : q \in ReifiedMenu}
  /\ pc = "new"
  /\ last = ReifiedOp("new", [status |-> "Ok"], solver, 0)
  /\ model = <<>>
  /\ lowered = 0
  /\ flag = "None"
  /\ stop = FALSE
  /\ resolver = "NoLearning"
  /\ failed = FALSE
  /\ adds = 0
  /\ iters = 0
  /\ processor = NoProcessor
  /\ client = "None"
  /\ checking = NoChecking
  /\ view = NoView

ReifiedStep(op, status, s, next, propagations) ==
  /\ solver' = s
  /\ pc' = next
  /\ last' = ReifiedOp(op, status, solver, propagations)
  /\ UNCHANGED <<model, lowered, flag, stop, resolver, failed, adds, iters,
                 processor, client, checking, view>>

\* Propagator::initialise_at_root on the reified propagator.
Initialised(r) ==
  ReifiedStep("initialise_at_root", [status |-> IF r.ok THEN "Ok" ELSE "Err"],
              [solver EXCEPT !.cp_propagators = <<r.p>>], "initialised", 0)

ReifiedInitialiseAtRoot ==
  /\ pc = "new"
  /\ Initialised(InitialiseAtRoot(solver.cp_propagators[1]))

\* Propagator::propagate on the reified propagator; a conflict ends the run.
Propagated(r) ==
  ReifiedStep("propagate", [r EXCEPT !.s = <<>>], r.s,
              IF r.status = "Ok" THEN "initialised" ELSE "conflict",
              last.propagations + 1)

ReifiedPropagateCall ==
  /\ pc = "initialised"
  /\ last.propagations < MaxPropagations
  /\ Propagated(PropagatorPropagate(solver.cp_propagators[1], solver, 1))

\* The context changes: the reification literal is decided, or a bound
\* of x is tightened without emptying the domain.
DecideLiteral(l) ==
  /\ pc \in {"new", "initialised"}
  /\ is_literal_unassigned(solver.assignments_propositional, l)
  /\ ReifiedStep("set_literal", [status |-> "Ok"],
                 [solver EXCEPT !.assignments_propositional = enqueue_decision_literal(@, l)],
                 pc, last.propagations)

Tightened(r) ==
  /\ r.ok
  /\ r.a # solver.assignments_integer
  /\ ReifiedStep("tighten", [status |-> "Ok"], [solver EXCEPT !.assignments_integer = r.a],
                 pc, last.propagations)

TightenBound(predicate) ==
  /\ pc \in {"new", "initialised"}
  /\ Tightened(apply_integer_predicate(solver.assignments_integer, predicate, 0))

ReifiedNext ==
  \/ ReifiedInitialiseAtRoot
  \/ ReifiedPropagateCall
  \/ \E l \in {B1, Neg(B1)} : DecideLiteral(l)
  \/ \E t \in {"ge", "le"}, v \in 0 .. XMax : TightenBound(Pred(t, v))

ReifiedSpec == ReifiedInit /\ [][ReifiedNext]_vars


\* ------------------------------------------------- the search to its end
\* One solve call without assumptions, with the NoLearning resolver, a
\* termination condition that never fires and a brancher over every
\* variable, followed to its return however many iterations it takes.
SearchModelMenu ==
  ModelMenu \cup
  {<<>>,
   <<Clause(<<B1, B2>>), Clause(<<Neg(B1), GeVar(XMax)>>)>>,
   <<Constraint(ReifiedGeq), Constraint(Propagator("LinearLeq", 0, 0, B2)),
     Clause(<<B1, B2>>)>>,
   <<Constraint(Propagator("LinearLeq", 1, 0, 0)), Clause(<<B1, GeVar(XMax)>>),
     Clause(<<Neg(B1), EqVar(1)>>)>>,
   <<Constraint(ReifiedGeq), Clause(<<B1>>), Clause(<<Neg(GeVar(1))>>)>>}

\* The literals of every variable but the one of the true literal.
SearchDecisionLiterals == {l \in Literals : VarOf(l) # TrueVar}

\* A brancher that has a decision as long as some variable is unfixed: it
\* branches on any unfixed variable, either way.
Unfixed(s) ==
  {VarOf(l) : l \in {m \in SearchDecisionLiterals :
                       is_literal_unassigned(s.assignments_propositional, m)}}

SearchBrancherNextDecision(s) ==
  IF Unfixed(s) = {} THEN {0}
  ELSE {l \in SearchDecisionLiterals : VarOf(l) \in Unfixed(s)}

SearchInit ==
  /\ model \in SearchModelMenu
  /\ solver = Fresh(LowerFrom(InitialSolver, model, 1))
  /\ lowered = Len(model)
  /\ pc = "idle"
  /\ flag = "None"
  /\ last = Op("lower", "Done", solver, solver)
  /\ stop = FALSE
  /\ resolver = "NoLearning"
  /\ failed = FALSE
  /\ adds = 0
  /\ iters = 0
  /\ processor = NoProcessor
  /\ client = "None"
  /\ checking = NoChecking
  /\ view = NoView

\* solve: solve_under_assumptions without assumptions.
Solve ==
  /\ pc = "idle"
  /\ flag = "None"
  /\ IF is_inconsistent(solver.state)
       THEN /\ solver' = Fresh(solver)
            /\ pc' = "idle"
            /\ flag' = "Infeasible"
            /\ last' = Op("solve", "Infeasible", solver, solver)
     ELSE SolveStarted([declare_solving(Fresh(solver)) EXCEPT !.assumptions = <<>>])
  /\ UNCHANGED <<model, lowered, stop, resolver, failed, adds, iters, processor, client,
                 checking, view>>

SearchIterated(r, decision) ==
  /\ IF Quiet(r) THEN decision \in SearchBrancherNextDecision(r.propagated)
     ELSE decision = 0
  /\ solver' = r.s
  /\ pc' = PcAfter(r.s, IF r.flag = "continue" THEN "solving" ELSE "idle")
  /\ flag' = IF r.flag = "continue" \/ r.s.panic # "" THEN flag ELSE r.flag
  /\ last' = [Op("iteration", r.flag, solver, r.s) EXCEPT
                !.conflict = FoundConflict(r),
                !.decision =
                   IF FoundConflict(r)
                     THEN get_last_decision(r.propagated.assignments_propositional)
                   ELSE 0,
                !.opened = Quiet(r)]

\* One iteration of the loop of solve_internal, which runs until it
\* returns; iters is the parity of the number of iterations taken.
SearchIteration(decision) ==
  /\ pc = "solving"
  /\ SearchIterated(SolveInternalIteration(Fresh(solver), stop, decision, resolver),
                    decision)
  /\ iters' = (iters + 1) % 2
  /\ UNCHANGED <<model, lowered, stop, resolver, failed, adds, processor, client,
                 checking, view>>

SearchStep == \E d \in SearchDecisionLiterals \cup {0} : SearchIteration(d)

SearchNext ==
  \/ Solve
  \/ SearchStep

\* The loop of solve_internal does not pause: while the solver is solving,
\* the next iteration is taken.  The steps that change iters in state
\* solving are the steps of SearchStep, which is enabled in every such state.
NextIteration == pc = "solving" /\ iters' = (iters + 1) % 2

SearchSpec == SearchInit /\ [][SearchNext]_vars /\ WF_iters(NextIteration)

\* ------------------------------------------- the two trails synchronised
\* The domain operations of a propagator put entries on the integer trail,
\* each with a reason of its own (the test
\* clausal_propagation_is_synced_until_right_before_conflict); an entry
\* without a reason stands for one that came from the Boolean trail.  The
\* Boolean trail is then synchronised from the integer trail.
TightenMenu == {Pred(t, v) : t \in {"ge", "le", "ne"}, v \in 0 .. XMax + 1}

SyncOp(op, conflict, synced_before, s) ==
  [op |-> op, conflict |-> conflict, synced_before |-> synced_before,
   entries |-> Len(s.assignments_integer.trail)]

SyncInit ==
  /\ solver = InitialSolver
  /\ pc = "tightening"
  /\ last = SyncOp("new", FALSE, 0, InitialSolver)
  /\ model = <<>>
  /\ lowered = 0
  /\ flag = "None"
  /\ stop = FALSE
  /\ resolver = "NoLearning"
  /\ failed = FALSE
  /\ adds = 0
  /\ iters = 0
  /\ processor = NoProcessor
  /\ client = "None"
  /\ checking = NoChecking
  /\ view = NoView

TrailTightened(r) ==
  /\ r.a # solver.assignments_integer
  /\ solver' = [solver EXCEPT !.assignments_integer = r.a]
  /\ last' = SyncOp("tighten", FALSE, solver.cp_trail_synced_position,
                    [solver EXCEPT !.assignments_integer = r.a])
  /\ UNCHANGED <<model, lowered, pc, flag, stop, resolver, failed, adds, iters, processor,
                 client, checking, view>>

\* The reason of an entry is its position on the trail, 0 for None.
Tighten(predicate, with_reason) ==
  /\ pc = "tightening"
  /\ Len(solver.assignments_integer.trail) < MaxEntries
  /\ TrailTightened(
       apply_integer_predicate(
         solver.assignments_integer, predicate,
         IF with_reason THEN Len(solver.assignments_integer.trail) + 1 ELSE 0))

Synchronised(r) ==
  /\ solver' = r.s
  /\ pc' = IF r.conflict THEN "conflict" ELSE "tightening"
  /\ last' = SyncOp("synchronise", r.conflict, solver.cp_trail_synced_position, r.s)
  /\ UNCHANGED <<model, lowered, flag, stop, resolver, failed, adds, iters, processor,
                 client, checking, view>>

SynchronisePropositionalTrail ==
  /\ pc = "tightening"
  /\ last.op # "synchronise"
  /\ Synchronised(synchronise_propositional_trail_based_on_integer_trail(Fresh(solver)))

SyncNext ==
  \/ \E p \in TightenMenu, with_reason \in BOOLEAN : Tighten(p, with_reason)
  \/ SynchronisePropositionalTrail

SyncSpec == SyncInit /\ [][SyncNext]_vars

\* ------------------------------------------------------ the affine view
\* AffineView { inner, scale, offset } models y = scale * x + offset over an
\* inner variable x.  The scales, offsets and values are small, so that none
\* of the i32 operations below overflows.
Abs(n) == IF n < 0 THEN -n ELSE n

\* The operators / and % of i32: the quotient is truncated towards zero and
\* the remainder has the sign of the dividend.
TruncDiv(n, d) ==
  IF (n < 0) = (d < 0) THEN Abs(n) \div Abs(d) ELSE -(Abs(n) \div Abs(d))

Rem(n, d) == n - d * TruncDiv(n, d)

div_ceil(n, other) ==
  LET d == TruncDiv(n, other)
      r == Rem(n, other)
  IN IF (r > 0 /\ other > 0) \/ (r < 0 /\ other < 0) THEN d + 1 ELSE d

\* div_floor that truncates instead.
div_floor_truncating(n, other) == TruncDiv(n, other)

div_floor(n, other) ==
  LET d == TruncDiv(n, other)
      r == Rem(n, other)
  IN IF (r > 0 /\ other < 0) \/ (r < 0 /\ other > 0) THEN d - 1 ELSE d

invert(v, value, rounding) ==
  IF rounding = "Up" THEN div_ceil(value - v.offset, v.scale)
  ELSE div_floor(value - v.offset, v.scale)

map(v, value) == v.scale * value + v.offset

\* Predicate::True and Predicate::False.
PredicateTrue == Pred("true", 0)
PredicateFalse == Pred("false", 0)

affine_lower_bound(v) ==
  IF v.scale < 0 THEN map(v, v.inner_ub) ELSE map(v, v.inner_lb)

affine_upper_bound(v) ==
  IF v.scale < 0 THEN map(v, v.inner_lb) ELSE map(v, v.inner_ub)

lower_bound_predicate(v, bound) ==
  IF v.scale < 0 THEN Pred("le", invert(v, bound, "Down"))
  ELSE Pred("ge", invert(v, bound, "Up"))

upper_bound_predicate(v, bound) ==
  IF v.scale < 0 THEN Pred("ge", invert(v, bound, "Up"))
  ELSE Pred("le", invert(v, bound, "Down"))

equality_predicate(v, bound) ==
  IF Rem(bound - v.offset, v.scale) = 0 THEN Pred("eq", invert(v, bound, "Up"))
  ELSE PredicateFalse

disequality_predicate(v, bound) ==
  IF Rem(bound - v.offset, v.scale) = 0 THEN Pred("ne", invert(v, bound, "Up"))
  ELSE PredicateTrue

Scales == {a \in -MaxScale .. MaxScale : a # 0}
Offsets == -MaxOffset .. MaxOffset
ViewValues == -MaxValue .. MaxValue

\* A view over an inner variable with the bounds inner_lb and inner_ub, and
\* the last call made on it.
ViewOf(v, op, value, predicate, bound) ==
  [op |-> op, scale |-> v.scale, offset |-> v.offset,
   inner_lb |-> v.inner_lb, inner_ub |-> v.inner_ub,
   value |-> value, predicate |-> predicate, bound |-> bound]

AffineInit ==
  /\ \E a \in Scales, b \in Offsets, lb \in Offsets, ub \in Offsets :
       /\ lb <= ub
       /\ view = ViewOf([scale |-> a, offset |-> b, inner_lb |-> lb, inner_ub |-> ub],
                        "new", 0, PredicateTrue, 0)
  /\ solver = EmptySolver
  /\ pc = "idle"
  /\ last = [op |-> "none"]
  /\ model = <<>>
  /\ lowered = 0
  /\ flag = "None"
  /\ stop = FALSE
  /\ resolver = "NoLearning"
  /\ failed = FALSE
  /\ adds = 0
  /\ iters = 0
  /\ processor = NoProcessor
  /\ client = "None"
  /\ checking = NoChecking

Constructed(op, value, predicate) ==
  /\ view' = ViewOf(view, op, value, predicate, 0)
  /\ UNCHANGED <<solver, model, lowered, pc, flag, last, stop, resolver, failed, adds,
                 iters, processor, client, checking>>

Queried(op, bound) ==
  /\ view' = ViewOf(view, op, 0, PredicateTrue, bound)
  /\ UNCHANGED <<solver, model, lowered, pc, flag, last, stop, resolver, failed, adds,
                 iters, processor, client, checking>>

LowerBoundPredicate(bound) ==
  Constructed("lower_bound_predicate", bound, lower_bound_predicate(view, bound))

UpperBoundPredicate(bound) ==
  Constructed("upper_bound_predicate", bound, upper_bound_predicate(view, bound))

EqualityPredicate(bound) ==
  Constructed("equality_predicate", bound, equality_predicate(view, bound))

DisequalityPredicate(bound) ==
  Constructed("disequality_predicate", bound, disequality_predicate(view, bound))

LowerBound == Queried("lower_bound", affine_lower_bound(view))

UpperBound == Queried("upper_bound", affine_upper_bound(view))

AffineNext ==
  \/ \E bound \in ViewValues : LowerBoundPredicate(bound)
  \/ \E bound \in ViewValues : UpperBoundPredicate(bound)
  \/ \E bound \in ViewValues : EqualityPredicate(bound)
  \/ \E bound \in ViewValues : DisequalityPredicate(bound)
  \/ LowerBound
  \/ UpperBound

AffineSpec == AffineInit /\ [][AffineNext]_vars

\* --------------------------------------------------------------- claims
\* C1: when the next assumption literal of a solve under assumptions is
\* already falsified, the call ends with the solver in the state
\* InfeasibleUnderAssumptions that carries this literal as the violated
\* assumption (the returned flag is Infeasible).
C1_FalsifiedAssumptionReported ==
  (last.op = "iteration" /\ last.falsified # 0) =>
     /\ is_infeasible_under_assumptions(solver.state)
     /\ solver.state.violated_assumption = last.falsified
     /\ flag = "Infeasible"
     /\ pc = "idle"

C1_Witness ==
  /\ last.op = "iteration"
  /\ last.falsified = Neg(B1)
  /\ is_infeasible_under_assumptions(solver.state)
  /\ solver.state.violated_assumption = Neg(B1)

\* C2: an add_clause call that leaves the solver with a conflict at the
\* root, be it on insertion or found by the propagation it runs, returns
\* an error.
C2_AddClauseReportsRootConflict ==
  (last.op = "add_clause" /\ ~last.failed_before /\ pc # "panicked"
     /\ is_inconsistent(solver.state))
    => last.result # "Ok"

\* C3: once an add_clause or add_propagator call has failed, every later
\* add_clause and add_propagator call is rejected with an error.
C3_AdditionsRejectedAfterFailure ==
  (last.op \in {"add_clause", "add_propagator"} /\ last.failed_before)
    => (pc # "panicked" /\ last.result # "Ok")

\* C4: once an addition has returned an error, later add_clause and
\* add_propagator calls leave the solver as it was.
C4_AdditionsAfterFailureChangeNothing ==
  (last.op \in {"add_clause", "add_propagator"} /\ last.failed_before)
    => last.unchanged

\* C5: when the propagation of a solve iteration finds a conflict at
\* decision level 0, solve returns Infeasible and the solver state is
\* Infeasible.
C5_RootConflictIsInfeasible ==
  (last.op = "iteration" /\ last.conflict /\ last.level = 0) =>
     /\ flag = "Infeasible"
     /\ is_infeasible(solver.state)
     /\ pc = "idle"

C5_Witness ==
  /\ last.op = "iteration" /\ last.conflict /\ last.level = 0
  /\ iters > 1
  /\ is_infeasible(solver.state)

\* The synchronisation calls of the last operation after which P3 failed.
Inconsistent(calls) ==
  {o \in solver.observed : o.call \in calls /\ ~o.consistent}

C7_BacktrackRestores ==
  \A o \in solver.observed : o.call = "backtrack_restores" => o.consistent

C7_Witness ==
  /\ \E o \in solver.observed :
        o.call = "backtrack_restores" /\ o.consistent /\ o.undone
  /\ last.level >= 1
  /\ get_decision_level(solver) < last.level

\* C8: on a conflict at level d >= 1 NoLearning learns no nogood, leaves
\* the solver at level d - 1 and ends by assigning the negation of the last
\* decision literal.
C8_NoLearningFlipsLastDecision ==
  (resolver = "NoLearning" /\ last.op = "iteration" /\ last.conflict /\ last.level >= 1)
    => /\ pc # "panicked"
       /\ solver.learned = <<>>
       /\ get_decision_level(solver) = last.level - 1
       /\ last.decision # 0
       /\ solver.assignments_propositional.trail[
            Len(solver.assignments_propositional.trail)].literal = Neg(last.decision)

\* C9: no constraint is posted and no solve iteration does anything but
\* return Timeout once the termination condition has fired: the solver
\* state becomes Timeout and nothing else changes.
C9_TerminationPolledFirst ==
  /\ last.op = "post" => ~stop
  /\ (last.op = "lower" /\ stop) => last.unchanged
  /\ (last.op = "iteration" /\ stop) =>
        /\ flag = "Timeout"
        /\ solver.state.kind = "Timeout"
        /\ pc = "idle"
        /\ last.frame

C9_Witness ==
  /\ last.op = "iteration" /\ stop /\ flag = "Timeout"
  /\ get_decision_level(solver) > 0
  /\ solver.sat_trail_synced_position < Len(solver.assignments_propositional.trail)

\* C10: when the 1-UIP resolver handles a conflict at level d >= 1 it
\* learns a nogood whose literal at index 0 is its only literal of level d.
C10_UIPLearnsAssertingNogood ==
  (resolver = "UniqueImplicationPoint" /\ last.op = "iteration" /\ last.conflict
     /\ last.level >= 1)
    => /\ pc # "panicked"
       /\ solver.learned # <<>>
       /\ is_literal_assigned_true(solver.assignments_propositional, solver.learned[1])

\* C11: add_removable_nogood installs the nogood, propagates, and always
\* returns success or a ProcessorConflict listing the edges to the conflict.
C11_AddRemovableNogoodReturns ==
  last.op = "add_removable_nogood" => last.result \in {"Ok", "Err"}

\* The clause on top of the engine before the last call.
TopBefore == last.clauses_before[Len(last.clauses_before)]

\* C12: when adding a clause ended in a conflict (the only way the engine
\* gets into state Conflict), one remove_last_rp_clause / remove_top_nogood
\* takes exactly that clause back, undoes its decision level and its
\* assignments, and leaves the solver Ready, the state in which clauses can
\* be added and propagate_under_assumptions can be called.
C12_RemoveAfterConflictRecovers ==
  (last.op \in {"remove_last_rp_clause", "remove_top_nogood"}
     /\ last.state_before = "Conflict")
  => /\ last.result = "Some"
     /\ last.returned = IF last.op = "remove_top_nogood" THEN Negated(TopBefore)
                        ELSE TopBefore
     /\ [i \in 1 .. Len(processor.engine.rp_clauses) |->
           processor.engine.rp_clauses[i].input]
          = SubSeq(last.clauses_before, 1, Len(last.clauses_before) - 1)
     /\ is_ready(processor.engine.solver.state)
     /\ get_decision_level(processor.engine.solver) = last.level_before - 1
     /\ \A o \in processor.engine.solver.observed :
           o.call = "backtrack_restores" => o.consistent

C12_Witness ==
  /\ last.op = "remove_last_rp_clause"
  /\ last.state_before = "Conflict"
  /\ last.result = "Some"
  /\ Len(last.clauses_before) >= 2
  /\ \E o \in processor.engine.solver.observed :
        o.call = "backtrack_restores" /\ o.consistent

\* C13: remove_last_rp_clause / remove_top_nogood returns the literals of
\* the most recently added clause that is still present, as they were
\* passed, and None when no added clause is left.
C13_RemoveReturnsLatest ==
  last.op \in {"remove_last_rp_clause", "remove_top_nogood"}
  => IF last.clauses_before = <<>> THEN last.result = "None"
     ELSE /\ last.result = "Some"
          /\ last.returned = IF last.op = "remove_top_nogood" THEN Negated(TopBefore)
                             ELSE TopBefore

\* C14: when propagate_under_assumptions returns, with or without a
\* conflict, the decision level, the literal assignment and the domain of
\* x are what they were before the call.
C14_AssumptionsAreTemporary ==
  (last.op \in {"propagate_under_assumptions", "processor_propagate_under_assumptions"}
     /\ last.result \in {"Ok", "Err"})
  => last.restored

C14_Witness ==
  /\ last.op = "propagate_under_assumptions"
  /\ last.result = "Err"
  /\ last.returned # <<>>
  /\ Len(last.argument) = 2
  /\ last.level_before >= 1
  /\ last.restored

\* q can be had from r by dropping elements.
RECURSIVE IsSubsequence(_, _)
IsSubsequence(q, r) ==
  IF q = <<>> THEN TRUE
  ELSE IF r = <<>> THEN FALSE
  ELSE IF Head(q) = Head(r) THEN IsSubsequence(Tail(q), Tail(r))
  ELSE IsSubsequence(q, Tail(r))

\* C15: trim returns the nogoods of the scaffold that are not redundant,
\* in the order of the scaffold: it only drops nogoods and never reorders.
C15_TrimReturnsSubsequence ==
  last.op = "trim" => last.result = "Ok" /\ IsSubsequence(last.returned, last.argument)

\* C16: a combine step with hints over integer atomics is accepted when
\* propagating its hints in order ends in a conflict, and rejected with an
\* error otherwise: either way verify_combine returns a verdict.
C16_CombineStepIsDecided ==
  (last.op = "verify_combine" /\ last.step.has_hints
     /\ AllIntAtomics(last.step.literals))
  => last.result \in {"Ok", "Err"}

\* An atomic the checker does not support: Boolean, over a variable the
\* model does not have, or with a value outside the 32-bit range.
Malformed(atomic) ==
  atomic.comparison = "bool" \/ atomic.name \notin CheckerVariables \/ atomic.wide

\* The values of a variable that satisfy the premises of the last step and
\* falsify its conclusion, and the least value a term takes over them.
Satisfies(d, atomic) ==
  CASE atomic.comparison = "ge" -> d >= atomic.value
    [] atomic.comparison = "le" -> d <= atomic.value
    [] atomic.comparison = "eq" -> d = atomic.value
    [] OTHER                    -> d # atomic.value

Remaining(name) ==
  {d \in 0 .. XMax :
     /\ \A i \in 1 .. Len(last.step.premises) :
           last.step.premises[i].name = name => Satisfies(d, last.step.premises[i])
     /\ \A i \in 1 .. Len(last.step.propagated) :
           last.step.propagated[i].name = name => ~Satisfies(d, last.step.propagated[i])}

RECURSIVE SumOfLeastValues(_, _, _)
SumOfLeastValues(terms, sign, i) ==
  IF i > Len(terms) THEN 0
  ELSE SetMin({sign * (terms[i].scale * d + terms[i].offset) : d \in Remaining(terms[i].id)})
       + SumOfLeastValues(terms, sign, i + 1)

LastConstraint == CheckerModel[last.step.hint_constraint_id]

\* C17: a linear inference over sum(terms) <= rhs is accepted exactly when
\* the premises and the negated conclusion can be applied and the least
\* values of the terms then sum to more than rhs; over sum(terms) = rhs
\* exactly when this holds for the constraint or for the one with all
\* terms and rhs negated.
C17_LinearInferenceAccepted ==
  (last.op = "verify_inference" /\ last.step.hint_label = "linear"
     /\ last.step.hint_constraint_id \in {1, 2}
     /\ \A i \in 1 .. Len(last.step.premises \o last.step.propagated) :
           ~Malformed((last.step.premises \o last.step.propagated)[i]))
  => (last.result = "Ok"
        <=> /\ \A n \in CheckerVariables : Remaining(n) # {}
            /\ \/ SumOfLeastValues(LastConstraint.terms, 1, 1) > LastConstraint.rhs
               \/ /\ LastConstraint.kind = "LinearEqual"
                  /\ SumOfLeastValues(LastConstraint.terms, -1, 1) > -LastConstraint.rhs)

\* An equality accepted through its negated direction only.
C17_Witness ==
  /\ last.op = "verify_inference"
  /\ last.result = "Ok"
  /\ last.step.hint_label = "linear"
  /\ last.step.hint_constraint_id = 2
  /\ last.step.premises # <<>>
  /\ last.step.propagated # <<>>
  /\ ~(SumOfLeastValues(LastConstraint.terms, 1, 1) > LastConstraint.rhs)

\* C18: verify_optimal accepts the conclusion when the nogoods recorded
\* imply the bound and returns an error otherwise: it returns a verdict.
C18_OptimalConclusionIsDecided ==
  (last.op = "verify_conclusion" /\ last.step.bound # <<>>)
  => last.result \in {"Ok", "Err"}

\* C19: record_nogood and record_inference return an error whenever the
\* step id was recorded before, as a nogood or as an inference.
C19_RecordingTwiceIsAnError ==
  (last.op \in {"record_nogood", "record_inference"} /\ last.recorded_before)
  => last.result = "Err"

C19_Witness ==
  /\ last.op = "record_nogood"
  /\ last.recorded_before
  /\ last.result = "Err"
  /\ last.step.id \in DOMAIN checking.inferences
  /\ last.step.id \notin DOMAIN checking.nogoods

\* C20: every error verify_inference or verify_combine returns names the
\* id of the step that was checked.
C20_ErrorsNameTheStep ==
  (last.op \in {"verify_inference", "verify_combine"} /\ last.result = "Err")
  => last.names_step = last.step.id

\* The atomics of the step recorded under an id.
RecordedAtomics(id) ==
  IF id \in DOMAIN checking.inferences
    THEN checking.inferences[id].premises \o checking.inferences[id].conclusion
  ELSE IF id \in DOMAIN checking.nogoods THEN checking.nogoods[id]
  ELSE <<>>

SomeMalformed(atomics) == \E i \in 1 .. Len(atomics) : Malformed(atomics[i])

\* C21: a malformed step makes the checker return an error, never panic:
\* an atomic over an unknown variable, with a value outside the 32-bit
\* range or Boolean, an unknown step id, constraint tag or inference label.
C21_MalformedStepsAreErrors ==
  /\ (last.op = "apply" /\ Malformed(last.step.atomic)) => last.result = "Err"
  /\ (last.op = "propagate_step"
        /\ (last.step.id \notin DOMAIN checking.inferences \cup DOMAIN checking.nogoods
            \/ SomeMalformed(RecordedAtomics(last.step.id))))
     => last.result = "Err"
  /\ (last.op = "verify_inference"
        /\ (\/ last.step.hint_constraint_id \notin DOMAIN CheckerModel
            \/ last.step.hint_label \notin {"linear", "maximum"}
            \/ SomeMalformed(last.step.premises \o last.step.propagated)))
     => last.result = "Err"

\* C22: when a context is dropped the domains of the checking state are
\* those of the moment the context was created, whatever was applied
\* through it and however many contexts came before.
C22_DropRestoresDomains ==
  last.op \in {"drop", "verify_inference", "verify_combine"}
  => Domains(checking.assignment) = last.domains_at_creation

\* The second context in a row is dropped after applies that changed a
\* domain, one of them failing.
C22_Witness ==
  /\ last.op = "drop"
  /\ last.contexts = 2
  /\ last.applied >= 2
  /\ last.changed
  /\ Domains(checking.assignment) = Domains(CheckingStateFrom(CheckerModel).assignment)

\* The reified propagator of the last call, its reification literal, and
\* what the wrapped propagator does on its own in the same context.
LastReified == last.before.cp_propagators[1]

WrappedAlone == WrappedPropagate([LastReified EXCEPT !.reif = 0], last.before, 1)

\* C23: with the reification literal true, propagate does what the wrapped
\* propagator does, with the reification literal added to every reason it
\* stores and to the conflict explanation it returns.
C23_ReificationLiteralInReasons ==
  (last.op = "propagate"
     /\ is_literal_assigned_true(last.before.assignments_propositional, LastReified.reif))
  => /\ last.status.status = WrappedAlone.status
     /\ solver.assignments_integer = WrappedAlone.s.assignments_integer
     /\ solver.assignments_propositional = WrappedAlone.s.assignments_propositional
     /\ Len(solver.reason_store) = Len(WrappedAlone.s.reason_store)
     /\ \A i \in 1 .. Len(solver.reason_store) :
           solver.reason_store[i].reason =
             IF i <= Len(last.before.reason_store)
               THEN last.before.reason_store[i].reason
             ELSE WrappedAlone.s.reason_store[i].reason \cup {LastReified.reif}
     /\ last.status.status = "Explanation"
          => last.status.explanation = WrappedAlone.explanation \cup {LastReified.reif}

\* A propagation of the wrapped propagator stored a reason.
C23_Witness ==
  /\ last.op = "propagate"
  /\ is_literal_assigned_true(last.before.assignments_propositional, LastReified.reif)
  /\ Len(solver.reason_store) > Len(last.before.reason_store)
  /\ solver.assignments_integer.lb > last.before.assignments_integer.lb
  /\ solver.reason_store[Len(solver.reason_store)].reason = {LastReified.reif}

\* The reason stored for the literal l on the trail, <<>> if it has none.
ReasonOf(s, l) ==
  IF ~is_literal_assigned_true(s.assignments_propositional, l)
       \/ TrailEntryOf(s.assignments_propositional, l).reason.kind # "reason_ref"
    THEN <<>>
  ELSE <<s.reason_store[TrailEntryOf(s.assignments_propositional, l).reason.ref].reason>>

\* C24 as stated: whenever the reification literal is unassigned and
\* detect_inconsistency returns a conjunction, propagate assigns the
\* literal false with that conjunction as its reason.
C24_DetectedInconsistencyIsTheReason ==
  (last.op = "propagate"
     /\ is_literal_unassigned(last.before.assignments_propositional, LastReified.reif)
     /\ WrappedDetectInconsistency(LastReified, last.before) # <<>>)
  => ReasonOf(solver, Neg(LastReified.reif)) = WrappedDetectInconsistency(LastReified, last.before)

\* C24, amended: the same when no root-level inconsistency is stored.
C24_DetectedInconsistencyIsTheReasonUnlessStored ==
  (last.op = "propagate"
     /\ is_literal_unassigned(last.before.assignments_propositional, LastReified.reif)
     /\ LastReified.root_level_inconsistency = <<>>
     /\ WrappedDetectInconsistency(LastReified, last.before) # <<>>)
  => /\ ReasonOf(solver, Neg(LastReified.reif))
          = WrappedDetectInconsistency(LastReified, last.before)
     /\ last.status.status = "Ok"

C24_Witness ==
  /\ last.op = "propagate"
  /\ is_literal_unassigned(last.before.assignments_propositional, LastReified.reif)
  /\ LastReified.kind = "LinearLeq"
  /\ LastReified.root_level_inconsistency = <<>>
  /\ ReasonOf(solver, Neg(LastReified.reif)) = <<{GeLit(2)}>>

\* C25: when the wrapped initialise_at_root returns a conflict the reified
\* initialisation succeeds and stores it, and the first propagation
\* assigns the reification literal false.
C25_RootConflictFalsifiesReification ==
  /\ (last.op = "initialise_at_root"
        /\ WrappedInitialiseAtRoot(last.before.cp_propagators[1]) # <<>>)
     => /\ last.status.status = "Ok"
        /\ solver.cp_propagators[1].root_level_inconsistency
             = WrappedInitialiseAtRoot(last.before.cp_propagators[1])
  /\ (last.op = "propagate" /\ last.propagations = 1
        /\ LastReified.root_level_inconsistency # <<>>)
     => is_literal_assigned_false(solver.assignments_propositional, LastReified.reif)

\* The violated assumption the solve call ended with.
Violated == solver.state.violated_assumption

FalsifiedAtRoot ==
  is_literal_root_assignment(solver.assignments_propositional, Violated)

\* The negation of the violated literal is an assumption that was decided.
ContradictsAnAssumption ==
  /\ ~FalsifiedAtRoot
  /\ \E i \in 1 .. Len(solver.assumptions) : solver.assumptions[i] = Neg(Violated)
  /\ is_literal_decision(solver.assignments_propositional, Neg(Violated))

\* C26 as stated: the core is the violated literal alone, when it is
\* falsified at the root and when it contradicts another assumption.
C26_CoreIsTheViolatedLiteral ==
  (last.op = "compute_clausal_core" /\ is_infeasible_under_assumptions(solver.state)
     /\ (FalsifiedAtRoot \/ ContradictsAnAssumption))
  => last.result = "Ok" /\ last.returned = <<Violated>>

\* C26, amended: a violated literal falsified at the root gives the core
\* Ok([violated]); one that contradicts another assumption gives
\* Err(violated), not a core.
C26_CoreOrConflictingAssumption ==
  (last.op = "compute_clausal_core" /\ is_infeasible_under_assumptions(solver.state))
  => /\ FalsifiedAtRoot => last.result = "Ok" /\ last.returned = <<Violated>>
     /\ ContradictsAnAssumption => last.result = "Err" /\ last.returned = <<Violated>>
     /\ last.unchanged

C26_Witness ==
  /\ last.op = "compute_clausal_core"
  /\ is_infeasible_under_assumptions(solver.state)
  /\ ContradictsAnAssumption
  /\ last.result = "Err"
  /\ Violated = Neg(B1)

\* The assertions of CSPSolverState on the state it is in.
StateAssertions ==
  {"declare_solving", "declare_conflict", "declare_solution_found", "declare_timeout",
   "declare_infeasible_under_assumptions"}

\* C27: a call on the engine, with add_rp_clause and
\* propagate_under_assumptions made only while the engine is not
\* conflicting, never fails an assertion on the state of the solver.
C27_NoStateAssertionFails ==
  (client = "RpEngine"
     /\ last.op \in {"add_rp_clause", "propagate_under_assumptions", "remove_last_rp_clause"}
     /\ (last.op # "remove_last_rp_clause" => last.state_before # "Conflict"))
  => last.panic \notin StateAssertions

\* The states solve leaves behind with Feasible, Timeout and
\* InfeasibleUnderAssumptions.
SolveOutcomes == {"ContainsSolution", "Timeout", "InfeasibleUnderAssumptions"}

\* C28: restore_state_at_root after one of these outcomes, at whatever
\* level it occurred, leaves the solver Ready at decision level 0.
C28_RestoreLeavesReadyAtRoot ==
  (last.op = "restore" /\ last.state_before \in SolveOutcomes)
  => is_ready(solver.state) /\ get_decision_level(solver) = 0

\* No solve call has been made: the solver has seen additions only.
OnlyAdditions == flag = "None"

\* C29: add_clause and add_propagator calls at the root, in any sequence,
\* never fail an assertion on the state of the solver; propagation never
\* declares a conflict in state Conflict.
C29_RootAdditionsKeepStateAssertions ==
  (last.op \in {"add_clause", "add_propagator", "post"} /\ OnlyAdditions /\ last.level = 0)
  => solver.panic \notin StateAssertions

\* C30: at a conflict at level d >= 1 NoLearning finds a last decision,
\* and the negation of it is unassigned once level d is undone, also when
\* a level was opened for an assumption that was true already.
C30_LastDecisionIsOfConflictLevel ==
  (resolver = "NoLearning" /\ last.op = "iteration" /\ last.conflict /\ last.level >= 1)
    => /\ last.decision # 0
       /\ solver.panic \notin {"Expected to be able to get the last decision",
                                "The propagated literal should not be assigned already"}

\* The value of a literal when x = x0 and the free variables are b1, b2.
LiteralHolds(l, x0, b1, b2) ==
  (l > 0) = (CASE VarOf(l) = TrueVar -> TRUE
               [] VarOf(l) = B1 -> b1
               [] VarOf(l) = B2 -> b2
               [] VarOf(l) \in {GeVar(k) : k \in 1 .. XMax} -> x0 >= VarOf(l) - TrueVar
               [] OTHER -> x0 = VarOf(l) - TrueVar - XMax)

\* What a posted propagator demands; one whose initialise_at_root fails
\* says that the root is inconsistent.
PropagatorHolds(q, x0, b1, b2) ==
  (q.reif # 0 => LiteralHolds(q.reif, x0, b1, b2))
  => CASE q.kind = "LinearLeq" -> x0 <= q.rhs
       [] q.kind = "LinearGeq" -> x0 >= q.rhs
       [] OTHER -> FALSE

\* Some value of x in its initial domain and some values of the free
\* variables satisfy every posted clause and propagator.
Satisfiable(posted) ==
  \E x0 \in 0 .. XMax, b1 \in BOOLEAN, b2 \in BOOLEAN :
     /\ \A c \in posted.clauses :
           \E i \in 1 .. Len(c) : LiteralHolds(c[i], x0, b1, b2)
     /\ \A q \in posted.propagators : PropagatorHolds(q, x0, b1, b2)

\* C31: with NoLearning and no assumptions, solve returns Infeasible only
\* when nothing satisfies the posted clauses and propagators.
C31_InfeasibleIsSound ==
  (resolver = "NoLearning" /\ last.op \in {"solve", "iteration"}
     /\ last.result = "Infeasible" /\ solver.assumptions = <<>>)
  => ~Satisfiable(solver.posted)

\* The search refuted both values of a decision before it gave up.
C31_Witness ==
  /\ resolver = "NoLearning"
  /\ last.op = "iteration" /\ last.result = "Infeasible"
  /\ solver.assumptions = <<>>
  /\ iters >= 3
  /\ is_infeasible(solver.state)
  /\ ~Satisfiable(solver.posted)

\* C32: a solve call with NoLearning, a brancher that decides as long as a
\* variable is unfixed and a termination condition that never fires
\* eventually returns Feasible or Infeasible.
C32_SolveReturns ==
  (pc = "solving") ~> (pc = "idle" /\ flag \in {"Feasible", "Infeasible"})

\* The search flipped a decision and went on to its end at the root.
C32_Witness ==
  /\ pc = "idle" /\ flag = "Infeasible"
  /\ last.op = "iteration" /\ last.conflict /\ last.level = 0
  /\ \E i \in 1 .. Len(solver.assignments_propositional.trail) :
        solver.assignments_propositional.trail[i].reason = NonReason

\* C33: a propagate_enqueued call in which a propagator returned
\* EmptyDomain ends with the solver in state Conflict.
C33_EmptyDomainEndsInConflict ==
  \A o \in solver.observed :
     o.call \notin {"empty_domain_then_panic", "empty_domain_then_no_conflict"}

C33_Witness ==
  /\ last.op = "add_propagator"
  /\ Len(solver.cp_propagators) >= 2
  /\ \E o \in solver.observed : o.call = "propagator_empty_domain" /\ o.empty
  /\ \E o \in solver.observed : o.call = "empty_domain_then_conflict"
  /\ conflicting(solver.state)

\* The integer trail entries with a reason among those at positions P.
WithReason(P) ==
  {i \in P \cap (1 .. Len(solver.assignments_integer.trail)) :
     solver.assignments_integer.trail[i].reason # 0}

\* The entry at position i has a literal on the Boolean trail by its reason.
Projected(i) ==
  \E k \in 1 .. Len(solver.assignments_propositional.trail) :
     solver.assignments_propositional.trail[k].reason
       = ReasonReference(solver.assignments_integer.trail[i].reason)

\* The projected literals stand on the Boolean trail in integer-trail order.
InTrailOrder ==
  \A k1, k2 \in 1 .. Len(solver.assignments_propositional.trail) :
     (k1 < k2
        /\ solver.assignments_propositional.trail[k1].reason.kind = "reason_ref"
        /\ solver.assignments_propositional.trail[k2].reason.kind = "reason_ref")
     => solver.assignments_propositional.trail[k1].reason.ref
          < solver.assignments_propositional.trail[k2].reason.ref

\* C34: when the synchronisation of the Boolean trail from the integer
\* trail reports a conflict, the literal of every entry before the
\* conflicting one is true, no entry after it has been projected, and the
\* projected literals are in the order of the integer trail.
C34_SyncedUntilRightBeforeConflict ==
  (last.op = "synchronise" /\ last.conflict)
  => /\ \A i \in WithReason(last.synced_before + 1 .. solver.cp_trail_synced_position - 1) :
           is_literal_assigned_true(
             solver.assignments_propositional,
             get_literal(solver.assignments_integer.trail[i].predicate))
     /\ \A i \in WithReason(solver.cp_trail_synced_position + 1 .. MaxEntries + 1) :
           ~Projected(i)
     /\ InTrailOrder

C34_Witness ==
  /\ last.op = "synchronise" /\ last.conflict
  /\ solver.cp_trail_synced_position = 2
  /\ WithReason(1 .. 3) = 1 .. 3
  /\ Projected(1)

\* C35: when a literal of the clause handed to add_rp_clause is true
\* already, the call assigns no literal and reports no conflict.
C35_SatisfiedClauseForcesNothing ==
  (last.op = "add_rp_clause" /\ last.satisfied_before)
  => last.result = "Ok" /\ last.assignment_kept

\* The step ids of the nogoods the engine holds.
InstalledStepIds ==
  {StepIdOf(processor.engine.rp_clauses[h].input) :
     h \in 1 .. Len(processor.engine.rp_clauses)}

\* C36: when add_removable_nogood or propagate_under_assumptions of the
\* processor meets a conflict, it returns a ProcessorConflict in which
\* every nogood edge carries the step id of a nogood that is installed,
\* the one being added included.
C36_NogoodEdgesNameInstalledNogoods ==
  (last.op \in {"add_removable_nogood", "processor_propagate_under_assumptions"}
     /\ (last.result = "Err" \/ last.panic = "called Option::unwrap() on a None value"))
  => /\ last.result = "Err"
     /\ \A i \in 1 .. Len(last.returned) :
           last.returned[i].kind = "Nogood" => last.returned[i].id \in InstalledStepIds

\* Whether the value x of the inner variable satisfies a predicate.
HoldsFor(x, p) ==
  CASE p.t = "ge" -> x >= p.v
    [] p.t = "le" -> x <= p.v
    [] p.t = "eq" -> x = p.v
    [] p.t = "ne" -> x # p.v
    [] p.t = "true" -> TRUE
    [] OTHER -> FALSE

\* The values of the inner variable the translated predicates are compared
\* on: they lie around every inverted bound.
InnerValues == -(MaxValue + MaxOffset + 1) .. (MaxValue + MaxOffset + 1)

\* The values of the view over the domain of its inner variable.
ViewImage == {map(view, x) : x \in view.inner_lb .. view.inner_ub}

Translates(t) == \A x \in InnerValues : HoldsFor(x, view.predicate) <=> t[x]

NotAMultiple == \A q \in InnerValues : view.scale * q # view.value - view.offset

\* C37: for a view y = a * x + b with a # 0, the bounds of y are the
\* least and the greatest a * x + b over the bounds of x, a predicate on y
\* is a predicate on x that holds for exactly the x whose a * x + b
\* satisfies the comparison (a bound on the other side when a < 0), and an
\* equality or disequality with a v for which v - b is not a multiple of a
\* is the constant False or True.
C37_AffineViewTranslatesExactly ==
  /\ view.op = "lower_bound" =>
       /\ view.bound \in ViewImage
       /\ \A y \in ViewImage : view.bound <= y
  /\ view.op = "upper_bound" =>
       /\ view.bound \in ViewImage
       /\ \A y \in ViewImage : y <= view.bound
  /\ view.op = "lower_bound_predicate" =>
       /\ view.predicate.t = (IF view.scale < 0 THEN "le" ELSE "ge")
       /\ Translates([x \in InnerValues |-> map(view, x) >= view.value])
  /\ view.op = "upper_bound_predicate" =>
       /\ view.predicate.t = (IF view.scale < 0 THEN "ge" ELSE "le")
       /\ Translates([x \in InnerValues |-> map(view, x) <= view.value])
  /\ view.op = "equality_predicate" =>
       /\ Translates([x \in InnerValues |-> map(view, x) = view.value])
       /\ NotAMultiple => view.predicate = PredicateFalse
  /\ view.op = "disequality_predicate" =>
       /\ Translates([x \in InnerValues |-> map(view, x) # view.value])
       /\ NotAMultiple => view.predicate = PredicateTrue

\* The view -2 * x asked for [view >= 5]: the bound is rounded down to
\* [x <= -3] (test_negated_variable_has_bounds_rounded_correctly).
C37_Witness ==
  /\ view.op = "lower_bound_predicate"
  /\ view.scale = -2
  /\ view.offset = 0
  /\ view.value = 5
  /\ view.predicate = Pred("le", -3)

====
